---- MODULE Spec2Model ----
(***************************************************************************)
(* Set/piece allocation and tracking subsystem of the textile order and    *)
(* beam allocation backend: order creation (ledger and beam configuration  *)
(* seeding), the design set tracking ledger, set-based lot creation, lot   *)
(* update / delete and the design-wise allocation report.                  *)
(*                                                                         *)
(* Tables of the persistence collaborator are sequences of rows; the       *)
(* position of a row is its database id.  Design numbers are modelled as   *)
(* small naturals (their order is the order of the design_number column),  *)
(* 0 standing for the empty string.  Ground colors are modelled by their   *)
(* beam_color_id (the ground color name is free text that none of the      *)
(* set-level tables reads).                                                *)
(***************************************************************************)
EXTENDS Integers, Sequences, FiniteSets, TLC

(* ----------------------------- bounds ---------------------------------- *)
MaxOrders == 1        \* orders created in one behaviour
MaxSets == 2          \* orders.sets ranges over 1..MaxSets
MaxLots == 1          \* lots created in one behaviour
MaxAllocs == 2        \* entries of a design_allocations list
MaxGround == 3        \* ground-color selections of one order
MaxProcs == 3         \* concurrent allocate requests

Designs == {1, 2}       \* design numbers an order may name
Beams == {1, 2}         \* beam colors of the master data
EmptyDesign == 0        \* the empty design_number string

VARIABLES
    orders,                 \* table orders
    order_items,            \* table order_items
    design_set_tracking,    \* table design_set_tracking (the ledger)
    design_beam_config,     \* table design_beam_config
    lot_register,           \* table lot_register
    lot_design_allocations, \* table lot_design_allocations
    order_item_status,      \* table order_item_status (piece-level status)
    lot_allocations,        \* table lot_allocations (piece-level allocation rows)
    resp,                   \* outcome of the last request
    granted,                \* sets granted by successful allocate calls, per (order, design)
    procs                   \* concurrent allocate requests in flight

vars == <<orders, order_items, design_set_tracking, design_beam_config,
          lot_register, lot_design_allocations, order_item_status, lot_allocations,
          resp, granted, procs>>

tables == <<orders, order_items, design_set_tracking, design_beam_config,
            lot_register, lot_design_allocations, order_item_status, lot_allocations>>

pieces == <<order_item_status, lot_allocations>>

(* --------------------------- generic helpers ---------------------------- *)
Range(s) == {s[i] : i \in DOMAIN s}

SeqsUpTo(S, n) == UNION {[1..k -> S] : k \in 1..n}

RECURSIVE SumSeq(_)
SumSeq(s) == IF s = <<>> THEN 0 ELSE Head(s) + SumSeq(Tail(s))

\* number of positions of s that satisfy Test
Count(s, Test(_)) == Cardinality({i \in DOMAIN s : Test(s[i])})

\* s with the rows that satisfy Test replaced by Upd(row)  (UPDATE ... WHERE)
UpdateWhere(s, Test(_), Upd(_)) ==
    [i \in DOMAIN s |-> IF Test(s[i]) THEN Upd(s[i]) ELSE s[i]]

\* stable insertion sort of rows by design_number  (ORDER BY design_number)
RECURSIVE InsertByDesign(_, _)
InsertByDesign(row, sorted) ==
    IF sorted = <<>> THEN <<row>>
    ELSE IF row.design_number < Head(sorted).design_number THEN <<row>> \o sorted
    ELSE <<Head(sorted)>> \o InsertByDesign(row, Tail(sorted))

RECURSIVE SortByDesign(_)
SortByDesign(s) ==
    IF s = <<>> THEN <<>>
    ELSE InsertByDesign(s[Len(s)], SortByDesign(SubSeq(s, 1, Len(s) - 1)))

\* the response of a request that is not an allocation failure
Resp(op, status) ==
    [op |-> op, status |-> status, requested |-> 0, available |-> 0, at |-> 0,
     designs |-> <<>>]

\* the response of a request refused for insufficient sets: the message names
\* the requested and the available count; at is the position of the entry
Refusal(op, status, requested, available, at) ==
    [op |-> op, status |-> status, requested |-> requested, available |-> available,
     at |-> at, designs |-> <<>>]

(* --------------------------- order creation ----------------------------- *)
\* python: len(design_numbers) != len(set(design_numbers))
HasDuplicates(design_numbers) ==
    Len(design_numbers) # Cardinality(Range(design_numbers))

\* beam colors of the selections in order of first occurrence (dict insertion order)
RECURSIVE BeamOrder(_)
BeamOrder(ground_colors) ==
    IF ground_colors = <<>> THEN <<>>
    ELSE LET init == BeamOrder(SubSeq(ground_colors, 1, Len(ground_colors) - 1))
             b == ground_colors[Len(ground_colors)]
         IN IF b \in Range(init) THEN init ELSE Append(init, b)

\* DesignBeamMap that records each beam color once, whatever its selections
DesignBeamMapOnes(design_numbers, ground_colors) ==
    [d \in Range(design_numbers) |-> [b \in Range(ground_colors) |-> 1]]

\* design_beam_map[design][beam_id]: the selections are counted per beam color
DesignBeamMap(design_numbers, ground_colors) ==
    [d \in Range(design_numbers) |->
        [b \in Range(ground_colors) |->
            Cardinality({i \in DOMAIN ground_colors : ground_colors[i] = b})]]

\* the design_beam_config rows of one design, one per beam color of the map
BeamConfigRows(order_id, design_number, ground_colors, map) ==
    LET bs == BeamOrder(ground_colors)
    IN [i \in DOMAIN bs |->
           [order_id |-> order_id, design_number |-> design_number,
            beam_color_id |-> bs[i], beam_multiplier |-> map[design_number][bs[i]],
            is_active |-> TRUE]]

\* TrackingRow that starts with nothing remaining
TrackingRowSpent(order_id, design_number, total_sets) ==
    [order_id |-> order_id, design_number |-> design_number,
     total_sets |-> total_sets, allocated_sets |-> 0,
     remaining_sets |-> 0, is_active |-> TRUE]

\* the design_set_tracking row inserted for one design of a new order
TrackingRow(order_id, design_number, total_sets) ==
    [order_id |-> order_id, design_number |-> design_number,
     total_sets |-> total_sets, allocated_sets |-> 0,
     remaining_sets |-> total_sets, is_active |-> TRUE]

\* the rows _initialize_design_tracking inserts: for each design its ledger row
\* and then its beam configuration rows
RECURSIVE InitTrackingRows(_, _, _, _)
InitTrackingRows(order_id, sets, design_numbers, ground_colors) ==
    IF design_numbers = <<>> THEN [tracking |-> <<>>, beam |-> <<>>]
    ELSE LET n == Len(design_numbers)
             init == InitTrackingRows(order_id, sets, SubSeq(design_numbers, 1, n - 1),
                                      ground_colors)
             map == DesignBeamMap(design_numbers, ground_colors)
             d == design_numbers[n]
         IN [tracking |-> Append(init.tracking, TrackingRow(order_id, d, sets)),
             beam |-> init.beam \o BeamConfigRows(order_id, d, ground_colors, map)]

\* A design number is any non-blank string. CommaDesign is the design number
\* "1,2", the one design number of the model that holds a comma.
CommaDesign == 3

\* str.split(",") of one design number
SplitDesign(design_number) ==
    IF design_number = CommaDesign THEN <<1, 2>> ELSE <<design_number>>

\* ",".join(design_numbers), the string an order item stores, held as the
\* list of its comma-separated parts: every reader of the column splits it
RECURSIVE JoinDesigns(_)
JoinDesigns(design_numbers) ==
    IF design_numbers = <<>> THEN <<>>
    ELSE SplitDesign(Head(design_numbers)) \o JoinDesigns(Tail(design_numbers))

\* the order_items rows of one order: one per ground-color selection, each
\* holding the whole design list
OrderItemRows(order_id, design_numbers, ground_colors) ==
    [i \in DOMAIN ground_colors |->
        [order_id |-> order_id, design_number |-> JoinDesigns(design_numbers),
         ground_color_name |-> i, beam_color_id |-> ground_colors[i],
         is_active |-> TRUE]]

\* the (design, ground color) combinations of a list of order items, in the
\* order the loops of _initialize_order_item_status visit them
RECURSIVE StatusPairs(_)
StatusPairs(items) ==
    IF items = <<>> THEN <<>>
    ELSE [k \in DOMAIN Head(items).design_number |->
             [design_number |-> Head(items).design_number[k],
              ground_color_name |-> Head(items).ground_color_name,
              beam_color_id |-> Head(items).beam_color_id]]
         \o StatusPairs(Tail(items))

\* one order_item_status row is inserted per combination that has no active
\* row yet; its total_pieces is the sets of the order
RECURSIVE InsertStatus(_, _, _, _)
InsertStatus(status, order_id, sets, combinations) ==
    IF combinations = <<>> THEN status
    ELSE LET c == Head(combinations)
             existing == {i \in DOMAIN status :
                             /\ status[i].order_id = order_id
                             /\ status[i].design_number = c.design_number
                             /\ status[i].ground_color_name = c.ground_color_name
                             /\ status[i].is_active}
             row == [order_id |-> order_id, design_number |-> c.design_number,
                     ground_color_name |-> c.ground_color_name,
                     beam_color_id |-> c.beam_color_id, total_pieces |-> sets,
                     allocated_pieces |-> 0, remaining_pieces |-> sets,
                     is_active |-> TRUE]
         IN InsertStatus(IF existing = {} THEN Append(status, row) ELSE status,
                         order_id, sets, Tail(combinations))

\* OrderRepository._initialize_order_item_status
InitializeOrderItemStatus(status, order_id, ords, items) ==
    IF order_id \notin DOMAIN ords THEN status
    ELSE LET IsItem(r) == r.order_id = order_id /\ r.is_active
         IN InsertStatus(status, order_id, ords[order_id].sets,
                         StatusPairs(SelectSeq(items, IsItem)))

\* CalculateTotalPieces over the distinct beam colors instead of the selections
CalculateTotalPiecesDistinct(order_id, ords, items) ==
    IF order_id \notin DOMAIN ords THEN 0
    ELSE LET used == {items[i].beam_color_id :
                         i \in {k \in DOMAIN items : /\ items[k].order_id = order_id
                                                     /\ items[k].is_active}}
         IN ords[order_id].sets * ords[order_id].total_designs * Cardinality(used)

\* _calculate_total_pieces: sets x total_designs x number of active order items
CalculateTotalPieces(order_id, ords, items) ==
    IF order_id \notin DOMAIN ords THEN 0
    ELSE LET IsItem(r) == r.order_id = order_id /\ r.is_active
         IN ords[order_id].sets * ords[order_id].total_designs * Count(items, IsItem)

\* OrderUseCase.create_order followed by OrderRepository.create. A quality is
\* known by its id: the master data keeps one name per quality, as it keeps
\* one code per color.
CreateOrder(sets, design_numbers, ground_colors, quality_id) ==
    IF HasDuplicates(design_numbers)
    THEN /\ resp' = Resp("createOrder", "validation")
         /\ UNCHANGED <<tables, granted, procs>>
    ELSE LET order_id == Len(orders) + 1
             inserted == Append(orders,
                            [sets |-> sets, quality_id |-> quality_id,
                             total_designs |-> Len(design_numbers),
                             total_pieces |-> 0, is_active |-> TRUE])
             items == order_items \o OrderItemRows(order_id, design_numbers, ground_colors)
             total == CalculateTotalPieces(order_id, inserted, items)
             seeded == InitTrackingRows(order_id, sets, design_numbers, ground_colors)
         IN /\ orders' = [inserted EXCEPT ![order_id].total_pieces = total]
            /\ order_items' = items
            /\ order_item_status' =
                   InitializeOrderItemStatus(order_item_status, order_id, inserted, items)
            /\ design_set_tracking' = design_set_tracking \o seeded.tracking
            /\ design_beam_config' = design_beam_config \o seeded.beam
            /\ resp' = Resp("createOrder", "ok")
            /\ UNCHANGED <<lot_register, lot_design_allocations, lot_allocations,
                           granted, procs>>

\* the inserts of _initialize_design_tracking in the order they are executed:
\* for each design its ledger row, then its beam configuration rows
RECURSIVE SeedingInserts(_, _, _, _)
SeedingInserts(order_id, sets, design_numbers, ground_colors) ==
    IF design_numbers = <<>> THEN <<>>
    ELSE LET n == Len(design_numbers)
             d == design_numbers[n]
             map == DesignBeamMap(design_numbers, ground_colors)
             config == BeamConfigRows(order_id, d, ground_colors, map)
         IN SeedingInserts(order_id, sets, SubSeq(design_numbers, 1, n - 1), ground_colors)
            \o <<[table |-> "design_set_tracking", row |-> TrackingRow(order_id, d, sets)]>>
            \o [i \in DOMAIN config |-> [table |-> "design_beam_config", row |-> config[i]]]

\* the rows a list of inserts adds to one table
InsertedInto(table, inserts) ==
    LET Into(x) == x.table = table
        sel == SelectSeq(inserts, Into)
    IN [i \in DOMAIN sel |-> sel[i].row]

\* OrderRepository.create when the insert after the first `done` inserts of
\* _initialize_design_tracking raises: each insert is executed on its own, the
\* except clause swallows the exception and create returns the order
CreateOrderSeedingFails(sets, design_numbers, ground_colors, quality_id, done) ==
    IF HasDuplicates(design_numbers)
    THEN /\ resp' = Resp("createOrder", "validation")
         /\ UNCHANGED <<tables, granted, procs>>
    ELSE LET order_id == Len(orders) + 1
             inserted == Append(orders,
                            [sets |-> sets, quality_id |-> quality_id,
                             total_designs |-> Len(design_numbers),
                             total_pieces |-> 0, is_active |-> TRUE])
             items == order_items \o OrderItemRows(order_id, design_numbers, ground_colors)
             total == CalculateTotalPieces(order_id, inserted, items)
             executed == SubSeq(SeedingInserts(order_id, sets, design_numbers,
                                               ground_colors), 1, done)
         IN /\ orders' = [inserted EXCEPT ![order_id].total_pieces = total]
            /\ order_items' = items
            /\ order_item_status' =
                   InitializeOrderItemStatus(order_item_status, order_id, inserted, items)
            /\ design_set_tracking' =
                   design_set_tracking \o InsertedInto("design_set_tracking", executed)
            /\ design_beam_config' =
                   design_beam_config \o InsertedInto("design_beam_config", executed)
            /\ resp' = Resp("createOrder", "ok")
            /\ UNCHANGED <<lot_register, lot_design_allocations, lot_allocations,
                           granted, procs>>

(* ------------------------------ the ledger ------------------------------ *)
\* DesignRepository.get_design_set_tracking: active rows of the order, of one
\* design when a non-empty design number is given, ordered by design_number
GetDesignSetTracking(tracking, order_id, design_number) ==
    LET Match(r) == /\ r.order_id = order_id
                    /\ r.is_active
                    /\ (design_number # EmptyDesign => r.design_number = design_number)
    IN SortByDesign(SelectSeq(tracking, Match))

\* DesignService.create_design_tracking, DesignRepository.create_design_set_tracking:
\* the row is inserted without a look at the rows there are. Whether the
\* table refuses a second row for the pair is decided by the database, whose
\* schema the repository does not hold: `accepted` is its decision. A refused
\* insert raises and the service answers 500.
CreateDesignTracking(order_id, design_number, total_sets, accepted) ==
    LET Hit(r) == r.order_id = order_id /\ r.design_number = design_number
    IN IF Count(design_set_tracking, Hit) > 0 /\ ~accepted
       THEN /\ resp' = Resp("createDesignTracking", "error")
            /\ UNCHANGED <<tables, granted, procs>>
       ELSE /\ design_set_tracking' =
                   Append(design_set_tracking,
                          TrackingRow(order_id, design_number, total_sets))
            /\ resp' = Resp("createDesignTracking", "ok")
            /\ UNCHANGED <<pieces, orders, order_items, design_beam_config,
                           lot_register, lot_design_allocations, granted, procs>>

\* DesignService.get_design_tracking (read-only): the rows read are returned
GetDesignTracking(order_id, design_number) ==
    /\ resp' = [Resp("getDesignTracking", "ok") EXCEPT
                   !.designs = GetDesignSetTracking(design_set_tracking, order_id,
                                                    design_number)]
    /\ UNCHANGED <<tables, granted, procs>>

\* ReadTracking with the allocated count overwritten instead of accumulated
ReadTrackingOverwrite(tracking, order_id, design_number, sets_to_allocate) ==
    LET current == GetDesignSetTracking(tracking, order_id, design_number)
    IN IF current = <<>>
       THEN [outcome |-> "false", new_allocated |-> 0, new_remaining |-> 0,
             requested |-> 0, available |-> 0]
       ELSE LET row == current[1]
                new_remaining == row.remaining_sets - sets_to_allocate
            IN IF new_remaining < 0
               THEN [outcome |-> "value_error", new_allocated |-> 0, new_remaining |-> 0,
                     requested |-> sets_to_allocate, available |-> row.remaining_sets]
               ELSE [outcome |-> "write", new_allocated |-> sets_to_allocate,
                     new_remaining |-> new_remaining, requested |-> 0, available |-> 0]

\* ReadTracking without the validation of the new remaining count
ReadTrackingUnchecked(tracking, order_id, design_number, sets_to_allocate) ==
    LET current == GetDesignSetTracking(tracking, order_id, design_number)
    IN IF current = <<>>
       THEN [outcome |-> "false", new_allocated |-> 0, new_remaining |-> 0,
             requested |-> 0, available |-> 0]
       ELSE [outcome |-> "write",
             new_allocated |-> current[1].allocated_sets + sets_to_allocate,
             new_remaining |-> current[1].remaining_sets - sets_to_allocate,
             requested |-> 0, available |-> 0]

\* DesignRepository.update_allocated_sets, first statement to the validation:
\* the row is read and the new counts are computed from what was read
ReadTracking(tracking, order_id, design_number, sets_to_allocate) ==
    LET current == GetDesignSetTracking(tracking, order_id, design_number)
    IN IF current = <<>>
       THEN [outcome |-> "false", new_allocated |-> 0, new_remaining |-> 0,
             requested |-> 0, available |-> 0]
       ELSE LET row == current[1]
                new_allocated == row.allocated_sets + sets_to_allocate
                new_remaining == row.remaining_sets - sets_to_allocate
            IN IF new_remaining < 0
               THEN [outcome |-> "value_error", new_allocated |-> 0, new_remaining |-> 0,
                     requested |-> sets_to_allocate, available |-> row.remaining_sets]
               ELSE [outcome |-> "write", new_allocated |-> new_allocated,
                     new_remaining |-> new_remaining, requested |-> 0, available |-> 0]

\* WriteTracking with an update that filters on order_id alone
WriteTrackingWholeOrder(tracking, order_id, design_number, new_allocated, new_remaining) ==
    LET Hit(r) == r.order_id = order_id
        Upd(r) == [r EXCEPT !.allocated_sets = new_allocated,
                            !.remaining_sets = new_remaining]
    IN [outcome |-> IF Count(tracking, Hit) > 0 THEN "true" ELSE "false",
        tracking |-> UpdateWhere(tracking, Hit, Upd)]

\* DesignRepository.update_allocated_sets, the update statement: every row of
\* the (order_id, design_number) pair takes the computed counts; the result is
\* whether a row was updated
WriteTracking(tracking, order_id, design_number, new_allocated, new_remaining) ==
    LET Hit(r) == r.order_id = order_id /\ r.design_number = design_number
        Upd(r) == [r EXCEPT !.allocated_sets = new_allocated,
                            !.remaining_sets = new_remaining]
    IN [outcome |-> IF Count(tracking, Hit) > 0 THEN "true" ELSE "false",
        tracking |-> UpdateWhere(tracking, Hit, Upd)]

\* DesignRepository.update_allocated_sets run without interruption
UpdateAllocatedSets(tracking, order_id, design_number, sets_to_allocate) ==
    LET r == ReadTracking(tracking, order_id, design_number, sets_to_allocate)
    IN IF r.outcome = "write"
       THEN LET w == WriteTracking(tracking, order_id, design_number,
                                   r.new_allocated, r.new_remaining)
            IN [outcome |-> w.outcome, tracking |-> w.tracking,
                requested |-> 0, available |-> 0]
       ELSE [outcome |-> r.outcome, tracking |-> tracking,
             requested |-> r.requested, available |-> r.available]

\* DesignService.allocate_sets: False becomes 404, ValueError becomes 400 with
\* the repository's message (available and requested counts)
ServiceStatus(outcome) ==
    CASE outcome = "true" -> "ok"
      [] outcome = "false" -> "not_found"
      [] OTHER -> "insufficient"

AllocateSets(tracking, order_id, design_number, sets_to_allocate) ==
    LET r == UpdateAllocatedSets(tracking, order_id, design_number, sets_to_allocate)
    IN [status |-> ServiceStatus(r.outcome), tracking |-> r.tracking,
        requested |-> r.requested, available |-> r.available]

Pair(order_id, design_number) == <<order_id, design_number>>

Grant(g, order_id, design_number, n) ==
    [g EXCEPT ![Pair(order_id, design_number)] = @ + n]

\* one allocate request served from start to end
Allocate(order_id, design_number, sets_to_allocate) ==
    LET r == AllocateSets(design_set_tracking, order_id, design_number, sets_to_allocate)
    IN /\ design_set_tracking' = r.tracking
       /\ resp' = Refusal("allocate", r.status, r.requested, r.available, 0)
       /\ granted' = IF r.status = "ok"
                     THEN Grant(granted, order_id, design_number, sets_to_allocate)
                     ELSE granted
       /\ UNCHANGED <<pieces, orders, order_items, design_beam_config, lot_register,
                      lot_design_allocations, procs>>

(* --------------------------- set-based lots ----------------------------- *)
\* DesignService.validate_design_allocation (read-only)
ValidateDesignAllocation(tracking, order_id, design_number, requested_sets) ==
    LET trackings == GetDesignSetTracking(tracking, order_id, design_number)
    IN IF trackings = <<>>
       THEN [valid |-> FALSE, error |-> "not_found", requested |-> 0, available |-> 0,
             available_after_allocation |-> 0]
       ELSE IF requested_sets > trackings[1].remaining_sets
            THEN [valid |-> FALSE, error |-> "insufficient",
                  requested |-> requested_sets,
                  available |-> trackings[1].remaining_sets,
                  available_after_allocation |-> 0]
            ELSE [valid |-> TRUE, error |-> "none", requested |-> 0, available |-> 0,
                  available_after_allocation |->
                      trackings[1].remaining_sets - requested_sets]

\* the validate-allocation request: the answer of validate_design_allocation
\* is returned, nothing is written
Validate(order_id, design_number, requested_sets) ==
    LET v == ValidateDesignAllocation(design_set_tracking, order_id, design_number,
                                      requested_sets)
    IN /\ resp' = Refusal("validate", IF v.valid THEN "ok" ELSE v.error,
                          v.requested, v.available, 0)
       /\ UNCHANGED <<tables, granted, procs>>

ValidateEntry(tracking, a) ==
    ValidateDesignAllocation(tracking, a.order_id, a.design_number, a.allocated_sets)

\* FirstInvalid that validates the first entry of the list alone
FirstInvalidHead(tracking, design_allocations) ==
    IF design_allocations # <<>> /\ ~ValidateEntry(tracking, design_allocations[1]).valid
    THEN 1 ELSE 0

\* first loop of create_lot_from_sets: every entry is validated against the
\* ledger as it stands, before anything is written; the result is the position
\* of the first entry that is not valid, 0 when all are
FirstInvalid(tracking, design_allocations) ==
    LET bad == {i \in DOMAIN design_allocations :
                   ~ValidateEntry(tracking, design_allocations[i]).valid}
    IN IF bad = {} THEN 0 ELSE CHOOSE i \in bad : \A j \in bad : i <= j

\* LotRepository.create_lot: total_pieces is the sum of allocated_pieces of the
\* piece-level allocations handed over; the lot starts PENDING
LotRow(allocated_pieces) ==
    [total_pieces |-> SumSeq(allocated_pieces), actual_pieces |-> 0,
     status |-> "PENDING", is_active |-> TRUE]

\* second loop of create_lot_from_sets: for each entry the allocation row is
\* inserted and then the ledger is updated; the first failing allocate_sets
\* ends the request and what was written stays
RECURSIVE WriteAllocations(_, _, _, _, _, _)
WriteAllocations(lot_id, design_allocations, at, tracking, lda, g) ==
    IF at > Len(design_allocations)
    THEN [status |-> "ok", tracking |-> tracking, lda |-> lda, granted |-> g,
          requested |-> 0, available |-> 0, at |-> 0]
    ELSE LET a == design_allocations[at]
             row == [lot_id |-> lot_id, order_id |-> a.order_id,
                     design_number |-> a.design_number,
                     allocated_sets |-> a.allocated_sets, is_active |-> TRUE]
             r == AllocateSets(tracking, a.order_id, a.design_number, a.allocated_sets)
         IN IF r.status = "ok"
            THEN WriteAllocations(lot_id, design_allocations, at + 1, r.tracking,
                                  Append(lda, row),
                                  [g EXCEPT ![<<a.order_id, a.design_number>>] =
                                                @ + a.allocated_sets])
            ELSE [status |-> r.status, tracking |-> r.tracking, lda |-> Append(lda, row),
                  granted |-> g, requested |-> r.requested, available |-> r.available,
                  at |-> at]

\* LotCreateFromSets (request schema: at least one entry) and
\* LotService.create_lot_from_sets
CreateLotFromSets(design_allocations) ==
    LET bad == FirstInvalid(design_set_tracking, design_allocations)
    IN IF design_allocations = <<>>
       THEN /\ resp' = Resp("createLot", "validation")
            /\ UNCHANGED <<tables, granted, procs>>
       ELSE IF bad # 0
       THEN LET v == ValidateEntry(design_set_tracking, design_allocations[bad])
            IN /\ resp' = Refusal("createLot", v.error, v.requested, v.available, bad)
               /\ UNCHANGED <<tables, granted, procs>>
       ELSE LET lot_id == Len(lot_register) + 1
                w == WriteAllocations(lot_id, design_allocations, 1, design_set_tracking,
                                      lot_design_allocations, granted)
            IN /\ lot_register' = Append(lot_register, LotRow(<<>>))
               /\ lot_design_allocations' = w.lda
               /\ design_set_tracking' = w.tracking
               /\ granted' = w.granted
               /\ resp' = Refusal("createLot", w.status, w.requested, w.available, w.at)
               /\ UNCHANGED <<pieces, orders, order_items, design_beam_config, procs>>

Statuses == {"PENDING", "IN_PROGRESS", "COMPLETED", "DELIVERED"}

\* UpdateLot without the validation of the status value
UpdateLotUnvalidated(lot_id, status) ==
    IF lot_id \notin DOMAIN lot_register
    THEN /\ resp' = Resp("updateLot", "not_found")
         /\ UNCHANGED <<tables, granted, procs>>
    ELSE /\ lot_register' = [lot_register EXCEPT ![lot_id].status = status]
         /\ resp' = Resp("updateLot", IF lot_register[lot_id].is_active
                                      THEN "ok" ELSE "not_found")
         /\ UNCHANGED <<pieces, orders, order_items, design_set_tracking,
                        design_beam_config, lot_design_allocations, granted, procs>>

\* LotUpdate.validate_status, LotService.update_lot, LotUseCase.update_lot,
\* LotRepository.update_lot: the row with this id is updated whether or not it
\* is active; the lot is then read back with get_lot_with_details, which
\* finds active lots only, and a lot not found there is answered 404
UpdateLot(lot_id, status) ==
    IF status \notin Statuses
    THEN /\ resp' = Resp("updateLot", "validation")
         /\ UNCHANGED <<tables, granted, procs>>
    ELSE IF lot_id \notin DOMAIN lot_register
    THEN /\ resp' = Resp("updateLot", "not_found")
         /\ UNCHANGED <<tables, granted, procs>>
    ELSE /\ lot_register' = [lot_register EXCEPT ![lot_id].status = status]
         /\ resp' = Resp("updateLot", IF lot_register[lot_id].is_active
                                      THEN "ok" ELSE "not_found")
         /\ UNCHANGED <<pieces, orders, order_items, design_set_tracking,
                        design_beam_config, lot_design_allocations, granted, procs>>

\* the ledger with the sets of a list of allocation rows given back
RECURSIVE RestoreSets(_, _)
RestoreSets(tracking, rows) ==
    IF rows = <<>> THEN tracking
    ELSE LET a == Head(rows)
             Hit(r) == r.order_id = a.order_id /\ r.design_number = a.design_number
             Back(r) == [r EXCEPT !.allocated_sets = @ - a.allocated_sets,
                                  !.remaining_sets = @ + a.allocated_sets]
         IN RestoreSets(UpdateWhere(tracking, Hit, Back), Tail(rows))

\* DeleteLot that returns the sets of the lot to the ledger
DeleteLotRestoring(lot_id) ==
    IF lot_id \notin DOMAIN lot_register
    THEN /\ resp' = Resp("deleteLot", "not_found")
         /\ UNCHANGED <<tables, granted, procs>>
    ELSE LET OfLot(r) == r.lot_id = lot_id
             Off(r) == [r EXCEPT !.is_active = FALSE]
         IN /\ lot_register' = [lot_register EXCEPT ![lot_id].is_active = FALSE]
            /\ lot_allocations' = UpdateWhere(lot_allocations, OfLot, Off)
            /\ design_set_tracking' =
                   RestoreSets(design_set_tracking, SelectSeq(lot_design_allocations, OfLot))
            /\ resp' = Resp("deleteLot", "ok")
            /\ UNCHANGED <<orders, order_items, design_beam_config,
                           lot_design_allocations, order_item_status, granted, procs>>

\* DeleteLot that also deactivates the beam configuration of the lot's designs
DeleteLotCascading(lot_id) ==
    IF lot_id \notin DOMAIN lot_register
    THEN /\ resp' = Resp("deleteLot", "not_found")
         /\ UNCHANGED <<tables, granted, procs>>
    ELSE LET OfLot(r) == r.lot_id = lot_id
             Off(r) == [r EXCEPT !.is_active = FALSE]
             InLot(c) == \E i \in DOMAIN lot_design_allocations :
                            /\ lot_design_allocations[i].lot_id = lot_id
                            /\ lot_design_allocations[i].order_id = c.order_id
                            /\ lot_design_allocations[i].design_number = c.design_number
         IN /\ lot_register' = [lot_register EXCEPT ![lot_id].is_active = FALSE]
            /\ lot_allocations' = UpdateWhere(lot_allocations, OfLot, Off)
            /\ design_beam_config' = UpdateWhere(design_beam_config, InLot, Off)
            /\ resp' = Resp("deleteLot", "ok")
            /\ UNCHANGED <<orders, order_items, design_set_tracking,
                           lot_design_allocations, order_item_status, granted, procs>>

\* LotService.delete_lot, LotRepository.delete_lot: the lot row and the
\* lot_allocations rows of the lot are deactivated
DeleteLot(lot_id) ==
    IF lot_id \notin DOMAIN lot_register
    THEN /\ resp' = Resp("deleteLot", "not_found")
         /\ UNCHANGED <<tables, granted, procs>>
    ELSE LET OfLot(r) == r.lot_id = lot_id
             Off(r) == [r EXCEPT !.is_active = FALSE]
         IN /\ lot_register' = [lot_register EXCEPT ![lot_id].is_active = FALSE]
            /\ lot_allocations' = UpdateWhere(lot_allocations, OfLot, Off)
            /\ resp' = Resp("deleteLot", "ok")
            /\ UNCHANGED <<orders, order_items, design_set_tracking, design_beam_config,
                           lot_design_allocations, order_item_status, granted, procs>>

(* --------------------------- piece-level lots --------------------------- *)
\* LotRepository.update_lot_field: only the listed fields may be edited inline
AllowedFields == {"bill_number", "actual_pieces", "delivery_date", "lot_date", "lot_number"}

\* LotService.update_lot_field, LotRepository.update_lot_field (the model keeps
\* actual_pieces of the editable fields; an empty value is stored as no value, 0)
UpdateLotField(lot_id, field, value) ==
    IF field \notin AllowedFields
    THEN /\ resp' = Resp("updateLotField", "validation")
         /\ UNCHANGED <<tables, granted, procs>>
    ELSE IF lot_id \notin DOMAIN lot_register
    THEN /\ resp' = Resp("updateLotField", "not_found")
         /\ UNCHANGED <<tables, granted, procs>>
    ELSE /\ lot_register' = IF field = "actual_pieces"
                            THEN [lot_register EXCEPT ![lot_id].actual_pieces = value]
                            ELSE lot_register
         /\ resp' = Resp("updateLotField", "ok")
         /\ UNCHANGED <<pieces, orders, order_items, design_set_tracking,
                        design_beam_config, lot_design_allocations, granted, procs>>

\* LotCreate.validate_allocations: two entries with the same order, design
\* and ground color
DuplicateAllocation(allocations) ==
    \E j, k \in DOMAIN allocations :
        /\ j # k
        /\ allocations[j].order_id = allocations[k].order_id
        /\ allocations[j].design_number = allocations[k].design_number
        /\ allocations[j].ground_color_name = allocations[k].ground_color_name

\* LotUseCase._validate_allocations for one entry: the order is active, the
\* first active status row of the (design, ground color) exists, has the
\* pieces left and carries the entry's beam color
ValidAllocation(ords, status, a) ==
    /\ a.order_id \in DOMAIN ords
    /\ ords[a.order_id].is_active
    /\ LET matching == {i \in DOMAIN status :
                           /\ status[i].order_id = a.order_id
                           /\ status[i].is_active
                           /\ status[i].design_number = a.design_number
                           /\ status[i].ground_color_name = a.ground_color_name}
       IN /\ matching # {}
          /\ LET first == CHOOSE i \in matching : \A j \in matching : i <= j
             IN /\ a.allocated_pieces <= status[first].remaining_pieces
                /\ a.beam_color_id = status[first].beam_color_id

\* the lot_allocations rows of a lot, one per entry
AllocationRows(lot_id, allocations) ==
    [k \in DOMAIN allocations |->
        [lot_id |-> lot_id, order_id |-> allocations[k].order_id,
         design_number |-> allocations[k].design_number,
         ground_color_name |-> allocations[k].ground_color_name,
         beam_color_id |-> allocations[k].beam_color_id,
         allocated_pieces |-> allocations[k].allocated_pieces, is_active |-> TRUE]]

\* LotService.create_lot, LotUseCase.create_lot, LotRepository.create_lot: the
\* piece-level lot creation
CreateLot(allocations) ==
    IF allocations = <<>> \/ DuplicateAllocation(allocations)
    THEN /\ resp' = Resp("createLotPieces", "validation")
         /\ UNCHANGED <<tables, granted, procs>>
    ELSE IF \E k \in DOMAIN allocations :
                ~ValidAllocation(orders, order_item_status, allocations[k])
    THEN /\ resp' = Resp("createLotPieces", "invalid")
         /\ UNCHANGED <<tables, granted, procs>>
    ELSE /\ lot_register' =
                Append(lot_register,
                       LotRow([k \in DOMAIN allocations |-> allocations[k].allocated_pieces]))
         /\ lot_allocations' =
                lot_allocations \o AllocationRows(Len(lot_register) + 1, allocations)
         /\ resp' = Resp("createLotPieces", "ok")
         /\ UNCHANGED <<orders, order_items, design_set_tracking, design_beam_config,
                        lot_design_allocations, order_item_status, granted, procs>>

\* the entries the register paths write: one piece per design of each active
\* order item, in the order of the items
RECURSIVE RegisterEntries(_, _)
RegisterEntries(order_id, items) ==
    IF items = <<>> THEN <<>>
    ELSE [k \in DOMAIN Head(items).design_number |->
             [order_id |-> order_id, design_number |-> Head(items).design_number[k],
              ground_color_name |-> Head(items).ground_color_name,
              beam_color_id |-> Head(items).beam_color_id, allocated_pieces |-> 1]]
         \o RegisterEntries(order_id, Tail(items))

\* LotService.create_lot_from_register, LotRepository.create_lot_from_register:
\* a lot for the whole order, total_pieces = sets x total_designs
CreateLotFromRegister(order_id) ==
    LET IsItem(r) == r.order_id = order_id /\ r.is_active
        items == SelectSeq(order_items, IsItem)
    IN IF order_id \notin DOMAIN orders \/ items = <<>>
       THEN /\ resp' = Resp("createLotFromRegister", "invalid")
            /\ UNCHANGED <<tables, granted, procs>>
       ELSE /\ lot_register' =
                   Append(lot_register,
                          [LotRow(<<>>) EXCEPT
                              !.total_pieces = orders[order_id].sets
                                               * orders[order_id].total_designs])
            /\ lot_allocations' =
                   lot_allocations
                   \o AllocationRows(Len(lot_register) + 1, RegisterEntries(order_id, items))
            /\ resp' = Resp("createLotFromRegister", "ok")
            /\ UNCHANGED <<orders, order_items, design_set_tracking, design_beam_config,
                           lot_design_allocations, order_item_status, granted, procs>>

\* LotService.create_lot_for_design, LotRepository.create_lot_for_design: a lot
\* for one design, total_pieces = sets, one piece per item that has the design
CreateLotForDesign(order_id, design_number) ==
    LET IsItem(r) == r.order_id = order_id /\ r.is_active
        items == SelectSeq(order_items, IsItem)
        OfDesign(a) == a.design_number = design_number
    IN IF order_id \notin DOMAIN orders \/ items = <<>>
       THEN /\ resp' = Resp("createLotForDesign", "invalid")
            /\ UNCHANGED <<tables, granted, procs>>
       ELSE /\ lot_register' =
                   Append(lot_register,
                          [LotRow(<<>>) EXCEPT !.total_pieces = orders[order_id].sets])
            /\ lot_allocations' =
                   lot_allocations
                   \o AllocationRows(Len(lot_register) + 1,
                                     SelectSeq(RegisterEntries(order_id, items), OfDesign))
            /\ resp' = Resp("createLotForDesign", "ok")
            /\ UNCHANGED <<orders, order_items, design_set_tracking, design_beam_config,
                           lot_design_allocations, order_item_status, granted, procs>>

\* LotService.create_lot_from_design: the use case has no create_lot_from_design,
\* the call raises before anything is read or written and the service answers 500
CreateLotFromDesign(order_id, design_number, pieces_allocated) ==
    /\ resp' = Resp("createLotFromDesign", "error")
    /\ UNCHANGED <<tables, granted, procs>>

\* LotRepository.create_lot_from_design, the status rows of the design as the
\* select returns them: their positions in order_item_status, no is_active filter
DesignStatusIds(status, order_id, design_number) ==
    LET OfDesign(i) == /\ status[i].order_id = order_id
                       /\ status[i].design_number = design_number
    IN SelectSeq([i \in 1..Len(status) |-> i], OfDesign)

\* the remaining_pieces of the rows read
RemainingOf(status, ids) == [k \in DOMAIN ids |-> status[ids[k]].remaining_pieces]

\* int(pieces_allocated * (current_remaining / total_remaining)), capped at
\* current_remaining; the float product truncates to the integer quotient for
\* every count up to 16
ProportionalPieces(pieces_allocated, current_remaining, total_remaining) ==
    LET allocated_for_color == (pieces_allocated * current_remaining) \div total_remaining
    IN IF allocated_for_color < current_remaining
       THEN allocated_for_color ELSE current_remaining

\* the lot_allocations list of the function: one {beam_color_id, pieces} per
\* status row that gets a positive share
RECURSIVE DesignAllocations(_, _, _, _)
DesignAllocations(status, ids, pieces_allocated, total_remaining) ==
    IF ids = <<>> THEN <<>>
    ELSE LET item == status[Head(ids)]
             n == ProportionalPieces(pieces_allocated, item.remaining_pieces,
                                     total_remaining)
             rest == DesignAllocations(status, Tail(ids), pieces_allocated,
                                       total_remaining)
         IN IF n > 0
            THEN <<[beam_color_id |-> item.beam_color_id, pieces |-> n]>> \o rest
            ELSE rest

\* the pieces of the allocations, one per allocation
AllocationPieces(allocations) == [k \in DOMAIN allocations |-> allocations[k].pieces]

\* the update loop: each allocation is written to the first status row read
\* that has its beam color, from the counts as they were read
RECURSIVE ReducePieces(_, _, _, _)
ReducePieces(status, read, ids, allocations) ==
    IF allocations = <<>> THEN status
    ELSE LET a == Head(allocations)
             SameBeam(i) == read[i].beam_color_id = a.beam_color_id
             id == SelectSeq(ids, SameBeam)[1]
         IN ReducePieces([status EXCEPT
                             ![id].remaining_pieces = read[id].remaining_pieces - a.pieces,
                             ![id].allocated_pieces = read[id].allocated_pieces + a.pieces],
                         read, ids, Tail(allocations))

\* LotRepository.create_lot_from_design called with its arguments: the
\* piece-count allocation with proportional distribution
RepositoryCreateLotFromDesign(order_id, design_number, pieces_allocated) ==
    LET ids == DesignStatusIds(order_item_status, order_id, design_number)
        total_remaining == SumSeq(RemainingOf(order_item_status, ids))
        allocations == DesignAllocations(order_item_status, ids, pieces_allocated,
                                         total_remaining)
        lot_id == Len(lot_register) + 1
    IN IF order_id \notin DOMAIN orders \/ ids = <<>>
       THEN /\ resp' = Resp("repositoryCreateLotFromDesign", "not_found")
            /\ UNCHANGED <<tables, granted, procs>>
       ELSE IF pieces_allocated > total_remaining
       THEN /\ resp' = Refusal("repositoryCreateLotFromDesign", "insufficient",
                               pieces_allocated, total_remaining, 0)
            /\ UNCHANGED <<tables, granted, procs>>
       ELSE /\ lot_register' =
                   Append(lot_register,
                          [LotRow(<<>>) EXCEPT !.total_pieces = SumSeq(AllocationPieces(allocations))])
            /\ lot_allocations' =
                   lot_allocations \o
                   [k \in DOMAIN allocations |->
                       [lot_id |-> lot_id, order_id |-> order_id,
                        design_number |-> design_number,
                        ground_color_name |-> order_item_status[ids[1]].ground_color_name,
                        beam_color_id |-> allocations[k].beam_color_id,
                        allocated_pieces |-> allocations[k].pieces, is_active |-> TRUE]]
            /\ order_item_status' =
                   ReducePieces(order_item_status, order_item_status, ids, allocations)
            /\ resp' = Resp("repositoryCreateLotFromDesign", "ok")
            /\ UNCHANGED <<orders, order_items, design_set_tracking, design_beam_config,
                           lot_design_allocations, granted, procs>>

(* ------------------------ order update and delete ----------------------- *)
\* UpdateOrder that also carries the new sets into the ledger rows of the order
UpdateOrderResizing(order_id, sets, design_numbers, ground_colors) ==
    IF order_id \notin DOMAIN orders \/ ~orders[order_id].is_active
    THEN /\ resp' = Resp("updateOrder", "not_found")
         /\ UNCHANGED <<tables, granted, procs>>
    ELSE IF HasDuplicates(design_numbers)
    THEN /\ resp' = Resp("updateOrder", "validation")
         /\ UNCHANGED <<tables, granted, procs>>
    ELSE LET main == IF sets = 0 THEN orders
                     ELSE [orders EXCEPT ![order_id].sets = sets]
             OfOrder(r) == r.order_id = order_id
             Off(r) == [r EXCEPT !.is_active = FALSE]
             Resize(r) == [r EXCEPT !.total_sets = main[order_id].sets,
                                    !.remaining_sets = main[order_id].sets - r.allocated_sets]
             items == UpdateWhere(order_items, OfOrder, Off)
                      \o OrderItemRows(order_id, design_numbers, ground_colors)
         IN /\ IF design_numbers = <<>>
               THEN orders' = main /\ order_items' = order_items
               ELSE /\ order_items' = items
                    /\ orders' = [main EXCEPT
                                     ![order_id].total_designs = Len(design_numbers),
                                     ![order_id].total_pieces =
                                         CalculateTotalPieces(order_id, main, items)]
            /\ design_set_tracking' = UpdateWhere(design_set_tracking, OfOrder, Resize)
            /\ resp' = Resp("updateOrder", "ok")
            /\ UNCHANGED <<pieces, design_beam_config, lot_register,
                           lot_design_allocations, granted, procs>>

\* OrderUseCase.update_order, OrderRepository.update. sets = 0 stands for an
\* update without sets, design_numbers = <<>> for one without design numbers
\* and ground colors. The totals are recalculated from the stored sets and
\* total_designs before total_designs is written.
UpdateOrder(order_id, sets, design_numbers, ground_colors) ==
    IF order_id \notin DOMAIN orders \/ ~orders[order_id].is_active
    THEN /\ resp' = Resp("updateOrder", "not_found")
         /\ UNCHANGED <<tables, granted, procs>>
    ELSE IF HasDuplicates(design_numbers)
    THEN /\ resp' = Resp("updateOrder", "validation")
         /\ UNCHANGED <<tables, granted, procs>>
    ELSE LET main == IF sets = 0 THEN orders
                     ELSE [orders EXCEPT ![order_id].sets = sets]
             OfOrder(r) == r.order_id = order_id
             Off(r) == [r EXCEPT !.is_active = FALSE]
             items == UpdateWhere(order_items, OfOrder, Off)
                      \o OrderItemRows(order_id, design_numbers, ground_colors)
         IN /\ IF design_numbers = <<>>
               THEN orders' = main /\ order_items' = order_items
               ELSE /\ order_items' = items
                    /\ orders' = [main EXCEPT
                                     ![order_id].total_designs = Len(design_numbers),
                                     ![order_id].total_pieces =
                                         CalculateTotalPieces(order_id, main, items)]
            /\ resp' = Resp("updateOrder", "ok")
            /\ UNCHANGED <<pieces, design_set_tracking, design_beam_config, lot_register,
                           lot_design_allocations, granted, procs>>

\* OrderUseCase.delete_order, OrderRepository.delete: the order and its
\* order_items (and order_cuts) are deactivated
DeleteOrder(order_id) ==
    IF order_id \notin DOMAIN orders \/ ~orders[order_id].is_active
    THEN /\ resp' = Resp("deleteOrder", "not_found")
         /\ UNCHANGED <<tables, granted, procs>>
    ELSE LET OfOrder(r) == r.order_id = order_id
             Off(r) == [r EXCEPT !.is_active = FALSE]
         IN /\ orders' = [orders EXCEPT ![order_id].is_active = FALSE]
            /\ order_items' = UpdateWhere(order_items, OfOrder, Off)
            /\ resp' = Resp("deleteOrder", "ok")
            /\ UNCHANGED <<pieces, design_set_tracking, design_beam_config, lot_register,
                           lot_design_allocations, granted, procs>>

(* ------------------------- design-wise report --------------------------- *)
\* stable insertion sort of beam configuration rows (ORDER BY design_number,
\* beam_color_id)
BeamBefore(r, q) ==
    \/ r.design_number < q.design_number
    \/ r.design_number = q.design_number /\ r.beam_color_id < q.beam_color_id

RECURSIVE InsertByBeam(_, _)
InsertByBeam(row, sorted) ==
    IF sorted = <<>> THEN <<row>>
    ELSE IF BeamBefore(row, Head(sorted)) THEN <<row>> \o sorted
    ELSE <<Head(sorted)>> \o InsertByBeam(row, Tail(sorted))

RECURSIVE SortByBeam(_)
SortByBeam(s) ==
    IF s = <<>> THEN <<>>
    ELSE InsertByBeam(s[Len(s)], SortByBeam(SubSeq(s, 1, Len(s) - 1)))

\* DesignRepository.get_design_beam_config
GetDesignBeamConfig(beam, order_id, design_number) ==
    LET Match(r) == /\ r.order_id = order_id
                    /\ r.is_active
                    /\ (design_number # EmptyDesign => r.design_number = design_number)
    IN SortByBeam(SelectSeq(beam, Match))

\* BeamPieces computed from the total instead of the remaining sets
BeamPiecesOfTotal(item, config) ==
    [beam_color_id |-> config.beam_color_id,
     beam_multiplier |-> config.beam_multiplier,
     pieces |-> item.total_sets * config.beam_multiplier]

\* one beam_pieces entry: pieces is remaining_sets x beam_multiplier
BeamPieces(item, config) ==
    [beam_color_id |-> config.beam_color_id,
     beam_multiplier |-> config.beam_multiplier,
     pieces |-> item.remaining_sets * config.beam_multiplier]

\* DesignRepository.get_design_wise_allocation_detail without filters: the
\* active ledger rows of active orders by design_number, each with its beam
\* configuration rows expanded into pieces
DesignWiseAllocationDetail(ords, tracking, beam) ==
    LET Match(r) == /\ r.is_active
                    /\ r.order_id \in DOMAIN ords
                    /\ ords[r.order_id].is_active
        items == SortByDesign(SelectSeq(tracking, Match))
    IN [i \in DOMAIN items |->
           LET configs == GetDesignBeamConfig(beam, items[i].order_id,
                                              items[i].design_number)
           IN [order_id |-> items[i].order_id,
               quality_name |-> ords[items[i].order_id].quality_id,
               design_number |-> items[i].design_number,
               total_sets |-> items[i].total_sets,
               allocated_sets |-> items[i].allocated_sets,
               remaining_sets |-> items[i].remaining_sets,
               beam_pieces |-> [k \in DOMAIN configs |-> BeamPieces(items[i], configs[k])]]]

\* DesignService.get_design_wise_allocation: a read-only request
GetDesignWiseAllocation ==
    /\ resp' = [Resp("report", "ok") EXCEPT
                   !.designs = DesignWiseAllocationDetail(orders, design_set_tracking,
                                                          design_beam_config)]
    /\ UNCHANGED <<tables, granted, procs>>

(* ------------------------ complete beam summary ------------------------- *)
\* AddToColor that keeps the pieces of the last design alone
AddToColorLast(color, beam) ==
    [color EXCEPT !.total_pieces = beam.pieces, !.designs_count = @ + 1]

\* the pieces of one beam_pieces entry added to the entry of its color
AddToColor(color, beam) ==
    [color EXCEPT !.total_pieces = @ + beam.pieces, !.designs_count = @ + 1]

\* beam_colors[color_key] of a quality after one beam_pieces entry: the color
\* is entered with zeros when it is met first (the dict keeps insertion order)
RECURSIVE AddBeamPieces(_, _)
AddBeamPieces(beam_colors, beam) ==
    IF beam_colors = <<>>
    THEN <<AddToColor([beam_color_code |-> beam.beam_color_id, total_pieces |-> 0,
                       designs_count |-> 0], beam)>>
    ELSE IF Head(beam_colors).beam_color_code = beam.beam_color_id
    THEN <<AddToColor(Head(beam_colors), beam)>> \o Tail(beam_colors)
    ELSE <<Head(beam_colors)>> \o AddBeamPieces(Tail(beam_colors), beam)

\* the inner loop of get_complete_beam_summary over the beam_pieces of a design
RECURSIVE AddDesignBeams(_, _)
AddDesignBeams(quality_data, beam_pieces) ==
    IF beam_pieces = <<>> THEN quality_data
    ELSE AddDesignBeams(
             [quality_data EXCEPT
                 !.beam_colors = AddBeamPieces(@, Head(beam_pieces)),
                 !.total_pieces = @ + Head(beam_pieces).pieces],
             Tail(beam_pieces))

\* quality_summary after one design: its quality is entered when met first
RECURSIVE AddDesign(_, _)
AddDesign(quality_summary, design) ==
    IF quality_summary = <<>>
    THEN <<AddDesignBeams([quality_name |-> design.quality_name, beam_colors |-> <<>>,
                           total_pieces |-> 0], design.beam_pieces)>>
    ELSE IF Head(quality_summary).quality_name = design.quality_name
    THEN <<AddDesignBeams(Head(quality_summary), design.beam_pieces)>>
         \o Tail(quality_summary)
    ELSE <<Head(quality_summary)>> \o AddDesign(Tail(quality_summary), design)

\* DesignRepository.get_complete_beam_summary over the rows of the design-wise
\* report, in their order
RECURSIVE CompleteBeamSummary(_)
CompleteBeamSummary(designs) ==
    IF designs = <<>> THEN <<>>
    ELSE AddDesign(CompleteBeamSummary(SubSeq(designs, 1, Len(designs) - 1)),
                   designs[Len(designs)])

\* DesignService.get_complete_beam_summary: a read-only request; the grand
\* total is the sum of the totals of the qualities
GetCompleteBeamSummary ==
    LET qualities == CompleteBeamSummary(
                         DesignWiseAllocationDetail(orders, design_set_tracking,
                                                    design_beam_config))
        totals == [k \in DOMAIN qualities |-> qualities[k].total_pieces]
    IN /\ resp' = [Resp("summary", "ok") EXCEPT
                      !.designs = [qualities |-> qualities,
                                   grand_total_pieces |-> SumSeq(totals)]]
       /\ UNCHANGED <<tables, granted, procs>>

(* ------------------------ concurrent allocation ------------------------- *)
\* a request that has not yet run its first statement
NewRequest(order_id, design_number, sets_to_allocate) ==
    [pc |-> "read", order_id |-> order_id, design_number |-> design_number,
     sets_to_allocate |-> sets_to_allocate, new_allocated |-> 0, new_remaining |-> 0,
     status |-> "none"]

\* the request reads the row, computes the new counts and validates them
ReadStep(p) ==
    /\ procs[p].pc = "read"
    /\ LET q == procs[p]
           r == ReadTracking(design_set_tracking, q.order_id, q.design_number,
                             q.sets_to_allocate)
       IN procs' = [procs EXCEPT ![p] =
                       IF r.outcome = "write"
                       THEN [q EXCEPT !.pc = "write",
                                      !.new_allocated = r.new_allocated,
                                      !.new_remaining = r.new_remaining]
                       ELSE [q EXCEPT !.pc = "done",
                                      !.status = ServiceStatus(r.outcome)]]
    /\ UNCHANGED <<tables, resp, granted>>

\* the request writes the counts it computed and returns
WriteStep(p) ==
    /\ procs[p].pc = "write"
    /\ LET q == procs[p]
           w == WriteTracking(design_set_tracking, q.order_id, q.design_number,
                              q.new_allocated, q.new_remaining)
       IN /\ design_set_tracking' = w.tracking
          /\ procs' = [procs EXCEPT ![p] =
                          [q EXCEPT !.pc = "done", !.status = ServiceStatus(w.outcome)]]
    /\ UNCHANGED <<pieces, orders, order_items, design_beam_config, lot_register,
                   lot_design_allocations, resp, granted>>

(* ----------------------- concurrent lot creation ------------------------ *)
\* a create_lot_from_sets request that has not yet run its first statement;
\* lot_id is the id of the lot it has inserted (0: none), allocated the sets
\* its updates have taken from the ledger
NewLotRequest(design_allocations) ==
    [pc |-> "validate", design_allocations |-> design_allocations, at |-> 1,
     lot_id |-> 0, allocated |-> 0, new_allocated |-> 0, new_remaining |-> 0,
     status |-> "none"]

\* first loop, one entry: validate_design_allocation reads the ledger
LotValidateStep(p) ==
    /\ procs[p].pc = "validate"
    /\ LET q == procs[p]
           v == ValidateEntry(design_set_tracking, q.design_allocations[q.at])
       IN procs' = [procs EXCEPT ![p] =
                       IF ~v.valid
                       THEN [q EXCEPT !.pc = "done", !.status = v.error]
                       ELSE IF q.at = Len(q.design_allocations)
                       THEN [q EXCEPT !.pc = "create", !.at = 1]
                       ELSE [q EXCEPT !.at = @ + 1]]
    /\ UNCHANGED <<tables, resp, granted>>

\* LotUseCase.create_lot with no piece-level allocations: the lot row
LotCreateStep(p) ==
    /\ procs[p].pc = "create"
    /\ lot_register' = Append(lot_register, LotRow(<<>>))
    /\ procs' = [procs EXCEPT ![p] =
                    [procs[p] EXCEPT !.pc = "insert", !.lot_id = Len(lot_register) + 1]]
    /\ UNCHANGED <<pieces, orders, order_items, design_set_tracking, design_beam_config,
                   lot_design_allocations, resp, granted>>

\* second loop, one entry: the lot_design_allocations row is inserted
LotInsertStep(p) ==
    /\ procs[p].pc = "insert"
    /\ LET q == procs[p]
           a == q.design_allocations[q.at]
       IN lot_design_allocations' =
              Append(lot_design_allocations,
                     [lot_id |-> q.lot_id, order_id |-> a.order_id,
                      design_number |-> a.design_number,
                      allocated_sets |-> a.allocated_sets, is_active |-> TRUE])
    /\ procs' = [procs EXCEPT ![p] = [procs[p] EXCEPT !.pc = "read"]]
    /\ UNCHANGED <<pieces, orders, order_items, design_set_tracking, design_beam_config,
                   lot_register, resp, granted>>

\* allocate_sets of the entry, the read: a refusal ends the request
LotReadStep(p) ==
    /\ procs[p].pc = "read"
    /\ LET q == procs[p]
           a == q.design_allocations[q.at]
           r == ReadTracking(design_set_tracking, a.order_id, a.design_number,
                             a.allocated_sets)
       IN procs' = [procs EXCEPT ![p] =
                       IF r.outcome = "write"
                       THEN [q EXCEPT !.pc = "write",
                                      !.new_allocated = r.new_allocated,
                                      !.new_remaining = r.new_remaining]
                       ELSE [q EXCEPT !.pc = "done",
                                      !.status = ServiceStatus(r.outcome)]]
    /\ UNCHANGED <<tables, resp, granted>>

\* allocate_sets of the entry, the update, then the next entry or the answer
LotWriteStep(p) ==
    /\ procs[p].pc = "write"
    /\ LET q == procs[p]
           a == q.design_allocations[q.at]
           w == WriteTracking(design_set_tracking, a.order_id, a.design_number,
                              q.new_allocated, q.new_remaining)
       IN /\ design_set_tracking' = w.tracking
          /\ procs' = [procs EXCEPT ![p] =
                          IF w.outcome # "true"
                          THEN [q EXCEPT !.pc = "done",
                                         !.status = ServiceStatus(w.outcome)]
                          ELSE IF q.at = Len(q.design_allocations)
                          THEN [q EXCEPT !.pc = "done", !.status = "ok",
                                         !.allocated = @ + a.allocated_sets]
                          ELSE [q EXCEPT !.pc = "insert", !.at = @ + 1,
                                         !.allocated = @ + a.allocated_sets]]
    /\ UNCHANGED <<pieces, orders, order_items, design_beam_config, lot_register,
                   lot_design_allocations, resp, granted>>

(* ----------------------------- specifications --------------------------- *)
OrderIds == 1..MaxOrders
AllocDesigns == Designs \cup {EmptyDesign}
DesignLists == SeqsUpTo(Designs, Cardinality(Designs))
GroundLists(n) == SeqsUpTo(Beams, n)
AllocEntries == [order_id : OrderIds, design_number : Designs, allocated_sets : 1..MaxSets]
AllocLists == {<<>>} \cup SeqsUpTo(AllocEntries, MaxAllocs)

Init ==
    /\ orders = <<>>
    /\ order_items = <<>>
    /\ design_set_tracking = <<>>
    /\ design_beam_config = <<>>
    /\ lot_register = <<>>
    /\ lot_design_allocations = <<>>
    /\ order_item_status = <<>>
    /\ lot_allocations = <<>>
    /\ resp = Resp("none", "ok")
    /\ granted = [p \in OrderIds \X AllocDesigns |-> 0]
    /\ procs = <<>>

DoCreateOrder ==
    /\ Len(orders) < MaxOrders
    /\ \E sets \in 1..MaxSets, ds \in DesignLists, gs \in {<<1>>} :
          CreateOrder(sets, ds, gs, 1)

DoAllocate ==
    \E o \in OrderIds, d \in Designs, n \in 1..(MaxSets + 1) : Allocate(o, d, n)

DoCreateLot ==
    /\ Len(lot_register) < MaxLots
    /\ \E as \in AllocLists : CreateLotFromSets(as)

DoUpdateLot ==
    \E l \in 1..MaxLots, st \in Statuses \cup {"CANCELLED"} : UpdateLot(l, st)

DoDeleteLot == \E l \in 1..MaxLots : DeleteLot(l)

\* the allocation engine: orders, the ledger and set-based lots
Next == DoCreateOrder \/ DoAllocate \/ DoCreateLot \/ DoUpdateLot \/ DoDeleteLot

Spec == Init /\ [][Next]_vars

\* the lot register: orders and set-based lots, the ledger written by lot
\* creation only
NextRegister == DoCreateOrder \/ DoCreateLot \/ DoUpdateLot \/ DoDeleteLot

SpecRegister == Init /\ [][NextRegister]_vars

\* the ledger called with any integer: DesignService.allocate_sets takes
\* sets_to_allocate as it comes, zero and negative values included; a negative
\* amount is drawn only while no row holds more than MaxSets remaining sets
DoAllocateSigned ==
    \E o \in OrderIds, d \in Designs, n \in (0 - MaxSets)..(MaxSets + 1) :
        /\ n < 0 => \A i \in DOMAIN design_set_tracking :
                        design_set_tracking[i].remaining_sets <= MaxSets
        /\ Allocate(o, d, n)

NextSigned == DoCreateOrder \/ DoAllocateSigned

SpecSigned == Init /\ [][NextSigned]_vars

\* the ledger alone: order creation and allocate
NextLedger == DoCreateOrder \/ DoAllocate

SpecLedger == Init /\ [][NextLedger]_vars

\* order creation over the whole input range, followed by allocations and
\* reports on the order created
DoCreateFirstOrder ==
    /\ orders = <<>>
    /\ \E sets \in 1..MaxSets, ds \in DesignLists, gs \in GroundLists(MaxGround) :
          CreateOrder(sets, ds, gs, 1)

NextOrder == DoCreateFirstOrder \/ DoAllocate \/ GetDesignWiseAllocation

SpecOrder == Init /\ [][NextOrder]_vars

\* the ledger next to the operations that must not write it: lot updates, the
\* piece-level lot creation paths and order update
PieceEntries ==
    [order_id : OrderIds, design_number : Designs, ground_color_name : {1},
     beam_color_id : {1}, allocated_pieces : {1, MaxSets + 1}]

PieceLists == {<<>>} \cup SeqsUpTo(PieceEntries, MaxAllocs)

DoUpdateLotField ==
    \E l \in 1..MaxLots, f \in {"actual_pieces", "status"}, v \in 0..1 :
        UpdateLotField(l, f, v)

DoCreateLotPieces ==
    /\ Len(lot_register) < MaxLots
    /\ \E as \in PieceLists : CreateLot(as)

DoCreateLotFromRegister ==
    /\ Len(lot_register) < MaxLots
    /\ \E o \in OrderIds : CreateLotFromRegister(o)

DoCreateLotForDesign ==
    /\ Len(lot_register) < MaxLots
    /\ \E o \in OrderIds, d \in Designs : CreateLotForDesign(o, d)

DoCreateLotFromDesign ==
    \E o \in OrderIds, d \in Designs, n \in 1..MaxSets : CreateLotFromDesign(o, d, n)

DoUpdateOrder ==
    /\ Len(order_items) + 1 < MaxGround
    /\ \E o \in OrderIds, sets \in {0, MaxSets}, ds \in {<<>>, <<1>>, <<1, 1>>} :
          UpdateOrder(o, sets, ds, <<1>>)

NextPieces ==
    \/ DoCreateOrder \/ DoAllocate \/ DoUpdateOrder
    \/ DoUpdateLot \/ DoUpdateLotField
    \/ DoCreateLotPieces \/ DoCreateLotFromRegister \/ DoCreateLotForDesign
    \/ DoCreateLotFromDesign

SpecPieces == Init /\ [][NextPieces]_vars

\* the piece-level lot creation alone: one order and MaxLots + 1 lots
DoCreateLotPiecesAgain ==
    /\ Len(lot_register) < MaxLots + 1
    /\ \E as \in PieceLists : CreateLot(as)

NextPieceLots == DoCreateFirstOrder \/ DoCreateLotPiecesAgain

SpecPieceLots == Init /\ [][NextPieceLots]_vars

\* the piece-count allocation of the repository called for the designs of one
\* order, for every count up to one more than the design can hold, until
\* there are MaxLots + 2 lots
DoRepositoryCreateLotFromDesign ==
    /\ Len(lot_register) < MaxLots + 2
    /\ \E o \in OrderIds, d \in Designs, n \in 1..(MaxSets * MaxGround + 1) :
          RepositoryCreateLotFromDesign(o, d, n)

NextDesignLots == DoCreateFirstOrder \/ DoRepositoryCreateLotFromDesign

SpecDesignLots == Init /\ [][NextDesignLots]_vars

\* order creation with and without a failing insert while the ledger is seeded
DoCreateOrderSeedingFails ==
    /\ Len(orders) < MaxOrders
    /\ \E sets \in 1..MaxSets, ds \in DesignLists, gs \in GroundLists(MaxGround) :
          \E done \in 0..(Len(SeedingInserts(Len(orders) + 1, sets, ds, gs)) - 1) :
              CreateOrderSeedingFails(sets, ds, gs, 1, done)

NextSeeding == DoCreateFirstOrder \/ DoCreateOrderSeedingFails \/ DoAllocate

SpecSeeding == Init /\ [][NextSeeding]_vars

\* the ledger operations on pairs with and without a ledger row; the entries
\* of a set-based lot and allocate_sets take any string as design_number, the
\* empty one included, the validate route a non-empty path segment
AnyEntries ==
    [order_id : OrderIds, design_number : AllocDesigns, allocated_sets : 1..MaxSets]

AnyLists == SeqsUpTo(AnyEntries, MaxAllocs)

DoAllocateAny ==
    \E o \in OrderIds, d \in AllocDesigns, n \in 1..(MaxSets + 1) : Allocate(o, d, n)

DoValidate ==
    \E o \in OrderIds, d \in Designs, n \in 1..(MaxSets + 1) : Validate(o, d, n)

DoCreateLotAny ==
    /\ Len(lot_register) < MaxLots
    /\ \E as \in AnyLists : CreateLotFromSets(as)

NextUnseeded == DoCreateOrder \/ DoAllocateAny \/ DoValidate \/ DoCreateLotAny

SpecUnseeded == Init /\ [][NextUnseeded]_vars

\* the ledger with its seed operation called for the designs of the orders
\* there are, one call more than the orders have designs
DoCreateDesignTracking ==
    /\ Len(design_set_tracking) <= MaxOrders * Cardinality(Designs)
    /\ \E o \in DOMAIN orders, d \in Designs, accepted \in BOOLEAN :
          CreateDesignTracking(o, d, orders[o].sets, accepted)

NextTracking == DoCreateOrder \/ DoCreateDesignTracking \/ DoAllocate

SpecTracking == Init /\ [][NextTracking]_vars

\* the allocation engine next to order deletion
DoDeleteOrder == \E o \in OrderIds : DeleteOrder(o)

DoGetDesignTracking ==
    \E o \in OrderIds, d \in AllocDesigns : GetDesignTracking(o, d)

NextDelete ==
    DoCreateOrder \/ DoDeleteOrder \/ DoAllocate \/ DoCreateLot \/ DoGetDesignTracking

SpecDelete == Init /\ [][NextDelete]_vars

\* the summary over orders of two qualities: one order more than MaxOrders,
\* each of MaxSets sets, allocations against their designs, order deletion
Qualities == {1, 2}
SummaryOrders == 1..(MaxOrders + 1)

InitSummary ==
    /\ orders = <<>>
    /\ order_items = <<>>
    /\ design_set_tracking = <<>>
    /\ design_beam_config = <<>>
    /\ lot_register = <<>>
    /\ lot_design_allocations = <<>>
    /\ order_item_status = <<>>
    /\ lot_allocations = <<>>
    /\ resp = Resp("none", "ok")
    /\ granted = [p \in SummaryOrders \X AllocDesigns |-> 0]
    /\ procs = <<>>

DoCreateOrderOfQuality ==
    /\ Len(orders) + 1 \in SummaryOrders
    /\ \E ds \in {<<1>>, <<2, 1>>}, gs \in {<<1>>, <<1, 2>>}, q \in Qualities :
          CreateOrder(MaxSets, ds, gs, q)

DoAllocateSummary ==
    \E o \in SummaryOrders, d \in Designs : Allocate(o, d, 1)

DoDeleteOrderSummary == \E o \in SummaryOrders : DeleteOrder(o)

NextSummary ==
    \/ DoCreateOrderOfQuality \/ DoAllocateSummary \/ DoDeleteOrderSummary
    \/ GetCompleteBeamSummary

SpecSummary == InitSummary /\ [][NextSummary]_vars

\* order creation and update over design numbers with and without a comma
NamedDesigns == Designs \cup {CommaDesign}
NamedLists == SeqsUpTo(NamedDesigns, Cardinality(Designs))

DoCreateOrderNamed ==
    /\ Len(orders) < MaxOrders
    /\ \E sets \in 1..MaxSets, ds \in NamedLists : CreateOrder(sets, ds, <<1>>, 1)

DoUpdateOrderNamed ==
    /\ Len(order_items) + 1 < MaxGround
    /\ \E o \in OrderIds, sets \in {0, MaxSets}, ds \in {<<>>} \cup NamedLists :
          UpdateOrder(o, sets, ds, <<1>>)

NextNamed == DoCreateOrderNamed \/ DoUpdateOrderNamed

SpecNamed == Init /\ [][NextNamed]_vars

\* MaxLots + 1 set-based lot requests against a fresh order of two designs,
\* each for design 1 alone or for design 2 and then design 1, their database
\* statements interleaved
LotRequestLists ==
    UNION {{<<[order_id |-> 1, design_number |-> 1, allocated_sets |-> n]>>,
            <<[order_id |-> 1, design_number |-> 2, allocated_sets |-> n],
              [order_id |-> 1, design_number |-> 1, allocated_sets |-> n]>>} :
           n \in 1..MaxSets}

InitLots ==
    \E sets \in 1..MaxSets :
        LET seeded == InitTrackingRows(1, sets, <<1, 2>>, <<1>>)
            ords == <<[sets |-> sets, quality_id |-> 1, total_designs |-> 2,
                       total_pieces |-> sets * 2, is_active |-> TRUE]>>
        IN /\ orders = ords
           /\ order_items = OrderItemRows(1, <<1, 2>>, <<1>>)
           /\ order_item_status =
                  InitializeOrderItemStatus(<<>>, 1, ords, OrderItemRows(1, <<1, 2>>, <<1>>))
           /\ lot_allocations = <<>>
           /\ design_set_tracking = seeded.tracking
           /\ design_beam_config = seeded.beam
           /\ lot_register = <<>>
           /\ lot_design_allocations = <<>>
           /\ resp = Resp("createOrder", "ok")
           /\ granted = [p \in OrderIds \X AllocDesigns |-> 0]
           /\ procs \in [1..(MaxLots + 1) -> {NewLotRequest(as) : as \in LotRequestLists}]

DoLotValidateStep == \E p \in DOMAIN procs : LotValidateStep(p)

DoLotCreateStep == \E p \in DOMAIN procs : LotCreateStep(p)

DoLotInsertStep == \E p \in DOMAIN procs : LotInsertStep(p)

DoLotReadStep == \E p \in DOMAIN procs : LotReadStep(p)

DoLotWriteStep == \E p \in DOMAIN procs : LotWriteStep(p)

NextLots ==
    \/ DoLotValidateStep \/ DoLotCreateStep \/ DoLotInsertStep
    \/ DoLotReadStep \/ DoLotWriteStep

SpecLots == InitLots /\ [][NextLots]_vars

\* MaxProcs allocate requests of one set each against the one design of an
\* order that has just been created, their statements interleaved
InitConc ==
    \E sets \in 1..MaxSets :
        LET seeded == InitTrackingRows(1, sets, <<1>>, <<1>>)
            ords == <<[sets |-> sets, quality_id |-> 1, total_designs |-> 1,
                       total_pieces |-> sets,
                       is_active |-> TRUE]>>
        IN /\ orders = ords
           /\ order_items = OrderItemRows(1, <<1>>, <<1>>)
           /\ order_item_status =
                  InitializeOrderItemStatus(<<>>, 1, ords, OrderItemRows(1, <<1>>, <<1>>))
           /\ lot_allocations = <<>>
           /\ design_set_tracking = seeded.tracking
           /\ design_beam_config = seeded.beam
           /\ lot_register = <<>>
           /\ lot_design_allocations = <<>>
           /\ resp = Resp("createOrder", "ok")
           /\ granted = [p \in OrderIds \X AllocDesigns |-> 0]
           /\ procs = [p \in 1..MaxProcs |-> NewRequest(1, 1, 1)]

DoReadStep == \E p \in DOMAIN procs : ReadStep(p)

DoWriteStep == \E p \in DOMAIN procs : WriteStep(p)

NextConc == DoReadStep \/ DoWriteStep

SpecConc == InitConc /\ [][NextConc]_vars

(* ------------------------------- claims --------------------------------- *)
\* the ledger rows of one (order_id, design_number) pair, read from the table
RowsOf(order_id, design_number) ==
    {i \in DOMAIN design_set_tracking :
        /\ design_set_tracking[i].order_id = order_id
        /\ design_set_tracking[i].design_number = design_number}

\* C1: in every state reached by order creation, allocate, set-based lot
\* creation, lot update and lot deletion, every ledger row has
\* allocated_sets + remaining_sets = total_sets and remaining_sets >= 0.
C1_LedgerBalanced ==
    \A i \in DOMAIN design_set_tracking :
        /\ design_set_tracking[i].allocated_sets + design_set_tracking[i].remaining_sets
               = design_set_tracking[i].total_sets
        /\ design_set_tracking[i].remaining_sets >= 0

\* a partly allocated row next to a lot that was created, updated and deleted
C1_Witness ==
    /\ \E i \in DOMAIN design_set_tracking :
          /\ design_set_tracking[i].allocated_sets > 0
          /\ design_set_tracking[i].remaining_sets > 0
    /\ lot_design_allocations # <<>>
    /\ \E l \in DOMAIN lot_register :
          ~lot_register[l].is_active /\ lot_register[l].status = "DELIVERED"

\* C2: the sets granted by successful allocate calls against one ledger row
\* never exceed its total_sets, and an allocate call that asks for more than
\* the remaining sets is refused with the requested and the available count
\* and leaves the ledger as it was.
C2_RefusedUnchanged ==
    \A o \in OrderIds, d \in Designs, n \in 1..(MaxSets + 1) :
        (/\ \E i \in RowsOf(o, d) : n > design_set_tracking[i].remaining_sets
         /\ Allocate(o, d, n))
        => /\ resp'.status = "insufficient"
           /\ resp'.requested = n
           /\ \A i \in RowsOf(o, d) :
                 resp'.available = design_set_tracking[i].remaining_sets
           /\ design_set_tracking' = design_set_tracking
           /\ granted' = granted

C2_GrantedWithinTotal ==
    \A i \in DOMAIN design_set_tracking :
        granted[<<design_set_tracking[i].order_id, design_set_tracking[i].design_number>>]
            <= design_set_tracking[i].total_sets

C2_NoOverallocation == [][C2_RefusedUnchanged]_vars /\ []C2_GrantedWithinTotal

\* a refusal that reports a request of 2 against 1 available set, after a grant
C2_Witness ==
    /\ resp.op = "allocate" /\ resp.status = "insufficient"
    /\ resp.requested = 2 /\ resp.available = 1
    /\ \E i \in DOMAIN design_set_tracking :
          /\ design_set_tracking[i].remaining_sets = 1
          /\ granted[<<design_set_tracking[i].order_id,
                       design_set_tracking[i].design_number>>] = 1

\* C5: a successful allocate of n sets, 0 < n <= remaining_sets, adds n to
\* allocated_sets and takes n from remaining_sets of the row of its
\* (order, design) pair, keeps its total_sets, and changes no other row.
C5_AllocateFrame ==
    \A o \in OrderIds, d \in Designs, n \in 1..(MaxSets + 1) :
        (/\ \E i \in RowsOf(o, d) : n <= design_set_tracking[i].remaining_sets
         /\ Allocate(o, d, n))
        => /\ resp'.status = "ok"
           /\ DOMAIN design_set_tracking' = DOMAIN design_set_tracking
           /\ \A i \in DOMAIN design_set_tracking :
                 IF i \in RowsOf(o, d)
                 THEN design_set_tracking'[i] =
                          [design_set_tracking[i] EXCEPT
                              !.allocated_sets = @ + n, !.remaining_sets = @ - n]
                 ELSE design_set_tracking'[i] = design_set_tracking[i]

C5_SuccessfulAllocate == [][C5_AllocateFrame]_vars

\* an allocation has succeeded on one row while another row is untouched
C5_Witness ==
    /\ resp.op = "allocate" /\ resp.status = "ok"
    /\ \E i, j \in DOMAIN design_set_tracking :
          /\ i # j
          /\ design_set_tracking[i].allocated_sets = 1
          /\ design_set_tracking[i].remaining_sets = 1
          /\ design_set_tracking[j].allocated_sets = 0
          /\ design_set_tracking[j].remaining_sets = design_set_tracking[j].total_sets

\* the requests of the concurrent specification that ended with this status
Ended(status) ==
    {p \in DOMAIN procs : procs[p].pc = "done" /\ procs[p].status = status}

\* C3: MaxProcs concurrent allocate calls of 1 set each against one design
\* whose remaining_sets is R < MaxProcs end, in every interleaving of their
\* read and write steps, with exactly R successes and MaxProcs - R
\* insufficient-sets failures and remaining_sets = 0; remaining_sets is never
\* negative. (R is the row's total_sets: the row is fresh when the calls start.)
C3_ExactlyRSucceed ==
    \A i \in DOMAIN design_set_tracking :
        /\ design_set_tracking[i].remaining_sets >= 0
        /\ (\A p \in DOMAIN procs : procs[p].pc = "done")
           => /\ Cardinality(Ended("ok")) = design_set_tracking[i].total_sets
              /\ Cardinality(Ended("insufficient"))
                     = Len(procs) - design_set_tracking[i].total_sets
              /\ design_set_tracking[i].remaining_sets = 0

\* all calls have returned and more of them succeeded than there were sets
C3_Witness ==
    /\ \A p \in DOMAIN procs : procs[p].pc = "done"
    /\ \E i \in DOMAIN design_set_tracking :
          Cardinality(Ended("ok")) > design_set_tracking[i].total_sets

\* an entry of the list asks for more sets than its ledger row has left
InsufficientEntry(design_allocations) ==
    \E k \in DOMAIN design_allocations :
        \E i \in RowsOf(design_allocations[k].order_id,
                        design_allocations[k].design_number) :
            design_allocations[k].allocated_sets > design_set_tracking[i].remaining_sets

\* C4: a set-based createLot whose list has, at any position, an entry that
\* asks for more sets than its design's remaining_sets fails, changes no
\* ledger row and creates no lot_register and no lot_design_allocations row.
C4_NothingWritten ==
    resp'.op = "createLot" =>
        \A as \in AllocLists :
            (InsufficientEntry(as) /\ CreateLotFromSets(as))
            => /\ resp'.status \in {"insufficient", "not_found"}
               /\ design_set_tracking' = design_set_tracking
               /\ lot_register' = lot_register
               /\ lot_design_allocations' = lot_design_allocations

C4_AllOrNothing == [][C4_NothingWritten]_vars

\* the second entry of a list was the insufficient one, the first was valid,
\* and no lot and no allocation row exists
C4_Witness ==
    /\ resp.op = "createLot" /\ resp.status = "insufficient" /\ resp.at = 2
    /\ resp.requested > resp.available
    /\ lot_register = <<>>
    /\ lot_design_allocations = <<>>
    /\ \A i \in DOMAIN design_set_tracking : design_set_tracking[i].allocated_sets = 0

\* two entries of the list name the same (order_id, design_number)
DuplicateEntries(design_allocations) ==
    \E j, k \in DOMAIN design_allocations :
        /\ j # k
        /\ design_allocations[j].order_id = design_allocations[k].order_id
        /\ design_allocations[j].design_number = design_allocations[k].design_number

\* C6: a set-based createLot whose list is empty or has two entries for the
\* same (order_id, design_number) is rejected, and no lot row, allocation row
\* or ledger change is written.
C6_RejectedUnwritten ==
    resp'.op = "createLot" =>
        \A as \in AllocLists :
            ((as = <<>> \/ DuplicateEntries(as)) /\ CreateLotFromSets(as))
            => /\ resp'.status # "ok"
               /\ design_set_tracking' = design_set_tracking
               /\ lot_register' = lot_register
               /\ lot_design_allocations' = lot_design_allocations

C6_EmptyOrDuplicateRejected == [][C6_RejectedUnwritten]_vars

\* a lot holding two allocation rows for the same (order_id, design_number)
C6_Witness ==
    \E j, k \in DOMAIN lot_design_allocations :
        /\ j # k
        /\ lot_design_allocations[j].lot_id = lot_design_allocations[k].lot_id
        /\ lot_design_allocations[j].order_id = lot_design_allocations[k].order_id
        /\ lot_design_allocations[j].design_number
               = lot_design_allocations[k].design_number

\* the rows of a ledger table for one (order_id, design_number) pair
TrackingRowsIn(tracking, order_id, design_number) ==
    {i \in DOMAIN tracking : /\ tracking[i].order_id = order_id
                             /\ tracking[i].design_number = design_number}

\* the rows of a beam configuration table for one (order, design, beam color)
ConfigRowsIn(beam, order_id, design_number, beam_color_id) ==
    {i \in DOMAIN beam : /\ beam[i].order_id = order_id
                         /\ beam[i].design_number = design_number
                         /\ beam[i].beam_color_id = beam_color_id}

\* the sum of the beam multipliers of one design over a set of beam colors
RECURSIVE SumMultipliers(_, _, _, _)
SumMultipliers(beam, order_id, design_number, colors) ==
    IF colors = {} THEN 0
    ELSE LET b == CHOOSE x \in colors : TRUE
             rows == ConfigRowsIn(beam, order_id, design_number, b)
         IN (IF rows = {} THEN 0 ELSE beam[CHOOSE i \in rows : TRUE].beam_multiplier)
            + SumMultipliers(beam, order_id, design_number, colors \ {b})

\* C7: after an order is created with sets S and design numbers D, each design
\* of D has exactly one ledger row, with total_sets = S, allocated_sets = 0
\* and remaining_sets = S, and the order has no ledger row for another design.
C7_OneRowPerDesign ==
    (resp'.op = "createOrder" /\ resp'.status = "ok") =>
        \A sets \in 1..MaxSets, ds \in DesignLists, gs \in GroundLists(MaxGround) :
            CreateOrder(sets, ds, gs, 1)
            => \A d \in AllocDesigns :
                  LET rows == TrackingRowsIn(design_set_tracking', Len(orders'), d)
                  IN IF d \in Range(ds)
                     THEN /\ Cardinality(rows) = 1
                          /\ \A i \in rows :
                                /\ design_set_tracking'[i].total_sets = sets
                                /\ design_set_tracking'[i].allocated_sets = 0
                                /\ design_set_tracking'[i].remaining_sets = sets
                     ELSE rows = {}

C7_LedgerSeeded == [][C7_OneRowPerDesign]_vars

\* an order of two designs and MaxSets sets has just been created
C7_Witness ==
    /\ resp.op = "createOrder" /\ resp.status = "ok"
    /\ Len(design_set_tracking) = 2
    /\ \A i \in DOMAIN design_set_tracking :
          design_set_tracking[i].remaining_sets = MaxSets

\* C8: after an order is created, every design of the order has, for every
\* beam color b among the ground-color selections, exactly one beam
\* configuration row, whose beam_multiplier is the number of selections with
\* beam color b (at least 1), the same for every design; a beam color that no
\* selection uses has no row.
C8_OneRowPerBeam ==
    (resp'.op = "createOrder" /\ resp'.status = "ok") =>
        \A sets \in 1..MaxSets, ds \in DesignLists, gs \in GroundLists(MaxGround) :
            CreateOrder(sets, ds, gs, 1)
            => \A d \in Range(ds), b \in Beams :
                  LET rows == ConfigRowsIn(design_beam_config', Len(orders'), d, b)
                      n == Cardinality({k \in DOMAIN gs : gs[k] = b})
                  IN IF n > 0
                     THEN /\ Cardinality(rows) = 1
                          /\ \A i \in rows : design_beam_config'[i].beam_multiplier = n
                     ELSE rows = {}

C8_BeamConfigSeeded == [][C8_OneRowPerBeam]_vars

\* selections with beams 1, 1, 2 gave each of two designs the map {1: 2, 2: 1}
C8_Witness ==
    /\ resp.op = "createOrder" /\ resp.status = "ok"
    /\ Len(order_items) = 3
    /\ \A d \in Designs :
          /\ \E i \in ConfigRowsIn(design_beam_config, 1, d, 1) :
                design_beam_config[i].beam_multiplier = 2
          /\ \E i \in ConfigRowsIn(design_beam_config, 1, d, 2) :
                design_beam_config[i].beam_multiplier = 1

\* C9: the total_pieces stored for a new order is sets x total_designs x the
\* sum of the beam multipliers of one design, which is sets x the number of
\* ground-color selections x total_designs.
C9_PiecesFormula ==
    (resp'.op = "createOrder" /\ resp'.status = "ok") =>
        \A sets \in 1..MaxSets, ds \in DesignLists, gs \in GroundLists(MaxGround) :
            CreateOrder(sets, ds, gs, 1)
            => LET o == Len(orders')
               IN /\ orders'[o].total_designs = Len(ds)
                  /\ orders'[o].total_pieces = sets * Len(gs) * Len(ds)
                  /\ \A d \in Range(ds) :
                        orders'[o].total_pieces
                            = sets * Len(ds) * SumMultipliers(design_beam_config', o, d, Beams)

C9_TotalPieces == [][C9_PiecesFormula]_vars

\* MaxSets sets, two designs and three selections, two of them on one beam
C9_Witness ==
    /\ resp.op = "createOrder" /\ resp.status = "ok"
    /\ \E o \in DOMAIN orders :
          /\ orders[o].sets = MaxSets /\ orders[o].total_designs = 2
          /\ orders[o].total_pieces = MaxSets * 2 * 3
          /\ \E i \in ConfigRowsIn(design_beam_config, o, 1, 1) :
                design_beam_config[i].beam_multiplier = 2

\* the entries of the last report for one (order_id, design_number) pair
ReportOf(order_id, design_number) ==
    {k \in DOMAIN resp.designs : /\ resp.designs[k].order_id = order_id
                                 /\ resp.designs[k].design_number = design_number}

PiecesOf(beam_pieces) == [k \in DOMAIN beam_pieces |-> beam_pieces[k].pieces]

\* C10: in the design-wise report every ledger row has one entry, with one
\* beam_pieces entry per beam configuration row of the design, each with
\* pieces = the row's current remaining_sets x that beam color's
\* beam_multiplier, so that the entries of a design sum to remaining_sets x
\* the sum of its beam multipliers.
C10_ReportPieces ==
    resp.op = "report" =>
        \A i \in DOMAIN design_set_tracking :
            LET r == design_set_tracking[i]
                es == ReportOf(r.order_id, r.design_number)
            IN /\ Cardinality(es) = 1
               /\ \A k \in es :
                     LET bp == resp.designs[k].beam_pieces
                     IN /\ \A b \in Beams :
                              LET rows == ConfigRowsIn(design_beam_config, r.order_id,
                                                       r.design_number, b)
                                  js == {j \in DOMAIN bp : bp[j].beam_color_id = b}
                              IN /\ Cardinality(js) = Cardinality(rows)
                                 /\ \A j \in js, c \in rows :
                                       bp[j].pieces = r.remaining_sets
                                                      * design_beam_config[c].beam_multiplier
                        /\ SumSeq(PiecesOf(bp))
                               = r.remaining_sets
                                 * SumMultipliers(design_beam_config, r.order_id,
                                                  r.design_number, Beams)

\* a report made after an allocation: 1 set remains of MaxSets, and beams with
\* multipliers 2 and 1 show 2 pieces and 1 piece
C10_Witness ==
    /\ resp.op = "report"
    /\ \E i \in DOMAIN design_set_tracking, k \in DOMAIN resp.designs :
          /\ design_set_tracking[i].remaining_sets = 1
          /\ design_set_tracking[i].allocated_sets = MaxSets - 1
          /\ resp.designs[k].design_number = design_set_tracking[i].design_number
          /\ resp.designs[k].remaining_sets = 1
          /\ \E j1, j2 \in DOMAIN resp.designs[k].beam_pieces :
                /\ resp.designs[k].beam_pieces[j1].beam_multiplier = 2
                /\ resp.designs[k].beam_pieces[j1].pieces = 2
                /\ resp.designs[k].beam_pieces[j2].beam_multiplier = 1
                /\ resp.designs[k].beam_pieces[j2].pieces = 1

\* the number of ground-color selections of an order that carry a design
GroundCount(items, order_id, design_number) ==
    Cardinality({i \in DOMAIN items : /\ items[i].order_id = order_id
                                      /\ items[i].is_active
                                      /\ design_number \in Range(items[i].design_number)})

\* the sum over the entries of allocated sets x the design's selections
RECURSIVE EntriesPieces(_, _)
EntriesPieces(items, design_allocations) ==
    IF design_allocations = <<>> THEN 0
    ELSE Head(design_allocations).allocated_sets
             * GroundCount(items, Head(design_allocations).order_id,
                           Head(design_allocations).design_number)
         + EntriesPieces(items, Tail(design_allocations))

\* C11: the lot_register row a successful set-based createLot inserts has
\* total_pieces = the sum, over the entries of the request, of allocated sets
\* x the number of ground-color selections of the entry's order and design.
C11_LotPieces ==
    (resp'.op = "createLot" /\ resp'.status = "ok") =>
        \A as \in AllocLists :
            CreateLotFromSets(as)
            => lot_register'[Len(lot_register')].total_pieces
                   = EntriesPieces(order_items, as)

C11_LotTotalPieces == [][C11_LotPieces]_vars

\* a set-based lot whose allocation rows carry sets while its total_pieces is 0
C11_Witness ==
    /\ resp.op = "createLot" /\ resp.status = "ok"
    /\ \E l \in DOMAIN lot_register :
          /\ lot_register[l].total_pieces = 0
          /\ \E k \in DOMAIN lot_design_allocations :
                /\ lot_design_allocations[k].lot_id = l
                /\ lot_design_allocations[k].allocated_sets > 0
                /\ GroundCount(order_items, lot_design_allocations[k].order_id,
                               lot_design_allocations[k].design_number) > 0

\* C12: deleteLot leaves every ledger row as it was: the sets the deleted lot
\* consumed are not returned, so after a lot is created and then deleted the
\* design's remaining_sets is still the decremented value.
C12_DeleteKeepsLedger ==
    resp'.op = "deleteLot" =>
        \A l \in 1..MaxLots : DeleteLot(l) => design_set_tracking' = design_set_tracking

C12_DeleteLotNoRestore == [][C12_DeleteKeepsLedger]_vars

\* a lot with an allocation row was deleted and the sets of the row are still
\* counted as allocated in the ledger
C12_Witness ==
    /\ resp.op = "deleteLot" /\ resp.status = "ok"
    /\ \E k \in DOMAIN lot_design_allocations :
          /\ ~lot_register[lot_design_allocations[k].lot_id].is_active
          /\ \E i \in RowsOf(lot_design_allocations[k].order_id,
                             lot_design_allocations[k].design_number) :
                /\ design_set_tracking[i].allocated_sets
                       = lot_design_allocations[k].allocated_sets
                /\ design_set_tracking[i].remaining_sets
                       = design_set_tracking[i].total_sets
                         - lot_design_allocations[k].allocated_sets

\* the operations that may write allocated_sets and remaining_sets: seeding at
\* order creation, allocate, and the set-based createLot that calls allocate
LedgerWriters == {"createOrder", "allocate", "createLot"}

\* C13: only order-creation seeding and allocate write the ledger: updateLot,
\* the inline update_lot_field, the piece-level lot creation paths and order
\* update leave every ledger row as it was.
C13_OthersKeepLedger ==
    /\ resp'.op \notin LedgerWriters => design_set_tracking' = design_set_tracking
    /\ \A l \in 1..MaxLots, st \in Statuses :
          UpdateLot(l, st) => design_set_tracking' = design_set_tracking
    /\ \A o \in OrderIds : CreateLotFromRegister(o)
                           => design_set_tracking' = design_set_tracking

C13_SoleWriter == [][C13_OthersKeepLedger]_vars

\* a lot of a partly allocated design was set to DELIVERED
C13_Witness ==
    /\ resp.op = "updateLot" /\ resp.status = "ok"
    /\ \E l \in DOMAIN lot_register : lot_register[l].status = "DELIVERED"
    /\ lot_allocations # <<>>
    /\ \E i \in DOMAIN design_set_tracking :
          /\ design_set_tracking[i].allocated_sets > 0
          /\ design_set_tracking[i].remaining_sets > 0

(* ------------------------------- claim C14 ------------------------------ *)
\* C14: after deleteLot(lot_id) succeeds the lot is inactive and every
\* allocation row of that lot is inactive, the piece-level rows
\* (lot_allocations) and the set-level rows (lot_design_allocations) alike.
C14_DeletedRowsInactive ==
    (resp'.op = "deleteLot" /\ resp'.status = "ok") =>
        \A l \in 1..MaxLots :
            DeleteLot(l) =>
                /\ ~lot_register'[l].is_active
                /\ \A i \in DOMAIN lot_allocations' :
                      lot_allocations'[i].lot_id = l => ~lot_allocations'[i].is_active
                /\ \A i \in DOMAIN lot_design_allocations' :
                      lot_design_allocations'[i].lot_id = l
                          => ~lot_design_allocations'[i].is_active

C14_DeleteCascades == [][C14_DeletedRowsInactive]_vars

\* a set-based lot has been deleted and one of its set-level rows is still there
C14_Witness ==
    /\ resp.op = "deleteLot" /\ resp.status = "ok"
    /\ \E i \in DOMAIN lot_design_allocations :
          ~lot_register[lot_design_allocations[i].lot_id].is_active

(* ------------------------------- claim C15 ------------------------------ *)
\* C15: order creation seeds the ledger atomically: whenever createOrder
\* returns an order, the ledger row and the beam configuration rows of every
\* design of that order exist, also when an insert fails while seeding.
C15_OrderSeededWhole ==
    (resp.op = "createOrder" /\ resp.status = "ok") =>
        LET o == Len(orders)
        IN \A k \in DOMAIN order_items :
              order_items[k].order_id = o =>
                  \A d \in Range(order_items[k].design_number) :
                      /\ TrackingRowsIn(design_set_tracking, o, d) # {}
                      /\ ConfigRowsIn(design_beam_config, o, d,
                                      order_items[k].beam_color_id) # {}

\* an order of two designs has been returned with the ledger row of the first
\* design only
C15_Witness ==
    /\ resp.op = "createOrder" /\ resp.status = "ok"
    /\ Len(orders) = 1 /\ orders[1].total_designs = 2
    /\ Len(design_set_tracking) = 1
    /\ design_beam_config = <<>>

(* ------------------------------- claim C16 ------------------------------ *)
\* C16: no allocation-engine operation (allocate, createLot, updateLot,
\* deleteLot) inserts, changes or deactivates a beam configuration row: in
\* every reachable state each beam_multiplier is the value fixed when its
\* order was created.
EngineOps == {"allocate", "createLot", "updateLot", "deleteLot"}

C16_EngineKeepsConfig ==
    resp'.op \in EngineOps => design_beam_config' = design_beam_config

\* every beam configuration row is active and carries the number of
\* ground-color selections of its order with its beam color
C16_MultipliersAsCreated ==
    \A i \in DOMAIN design_beam_config :
        LET c == design_beam_config[i]
            Selected(r) == /\ r.order_id = c.order_id
                           /\ r.beam_color_id = c.beam_color_id
                           /\ c.design_number \in Range(r.design_number)
        IN /\ c.is_active
           /\ c.beam_multiplier = Count(order_items, Selected)

C16_BeamConfigFixed == [][C16_EngineKeepsConfig]_vars /\ []C16_MultipliersAsCreated

\* a lot that took sets from the ledger has been deleted
C16_Witness ==
    /\ resp.op = "deleteLot" /\ resp.status = "ok"
    /\ design_beam_config # <<>>
    /\ lot_design_allocations # <<>>
    /\ \E i \in DOMAIN design_set_tracking : design_set_tracking[i].allocated_sets > 0

(* ------------------------------- claim C17 ------------------------------ *)
\* the (order_id, design_number) pair has no active ledger row
Unseeded(order_id, design_number) ==
    \A i \in DOMAIN design_set_tracking :
        ~(/\ design_set_tracking[i].order_id = order_id
          /\ design_set_tracking[i].design_number = design_number
          /\ design_set_tracking[i].is_active)

\* C17: allocate, validate and set-based createLot on an (order_id,
\* design_number) that has no active ledger row fail with a not-found error
\* and create or change no ledger row, lot row or allocation row.
C17_UnseededRefused ==
    /\ resp'.op = "allocate" =>
          \A o \in OrderIds, d \in AllocDesigns, n \in 1..(MaxSets + 1) :
              (Unseeded(o, d) /\ Allocate(o, d, n))
              => resp'.status = "not_found" /\ UNCHANGED tables
    /\ resp'.op = "validate" =>
          \A o \in OrderIds, d \in Designs, n \in 1..(MaxSets + 1) :
              (Unseeded(o, d) /\ Validate(o, d, n))
              => resp'.status = "not_found" /\ UNCHANGED tables
    /\ resp'.op = "createLot" =>
          \A as \in AnyLists :
              (/\ \A k \in DOMAIN as : Unseeded(as[k].order_id, as[k].design_number)
               /\ CreateLotFromSets(as))
              => resp'.status = "not_found" /\ UNCHANGED tables

C17_UnseededNotFound == [][C17_UnseededRefused]_vars

\* a lot request for the pair (1, empty design number), which has no ledger
\* row, was answered not found after its lot and allocation rows were written
C17_Witness ==
    /\ resp.op = "createLot" /\ resp.status = "not_found"
    /\ Len(lot_register) = 1
    /\ \E i \in DOMAIN lot_design_allocations :
          /\ lot_design_allocations[i].design_number = EmptyDesign
          /\ Unseeded(lot_design_allocations[i].order_id, EmptyDesign)

(* ------------------------------- claim C18 ------------------------------ *)
\* at most one ledger row per (order_id, design_number)
C18_OneRowPerPair ==
    \A o \in OrderIds, d \in AllocDesigns :
        Cardinality(TrackingRowsIn(design_set_tracking, o, d)) <= 1

\* seeding a pair that has a row fails and leaves the ledger as it is
C18_SeedExistingRefused ==
    resp'.op = "createDesignTracking" =>
        \A o \in OrderIds, d \in Designs, t \in 1..MaxSets, accepted \in BOOLEAN :
            (/\ TrackingRowsIn(design_set_tracking, o, d) # {}
             /\ CreateDesignTracking(o, d, t, accepted))
            => /\ resp'.status # "ok"
               /\ design_set_tracking' = design_set_tracking

\* C18: in every reachable state there is at most one ledger row per
\* (order_id, design_number): seeding a pair that already has a row fails with
\* a duplicate error and leaves the existing row, its allocated_sets and
\* remaining_sets included, unchanged.
C18_NoDuplicateRows == []C18_OneRowPerPair /\ [][C18_SeedExistingRefused]_vars

\* a pair with sets allocated has been seeded again and has two rows
C18_Witness ==
    /\ resp.op = "createDesignTracking" /\ resp.status = "ok"
    /\ \E i, j \in DOMAIN design_set_tracking :
          /\ i < j
          /\ design_set_tracking[i].order_id = design_set_tracking[j].order_id
          /\ design_set_tracking[i].design_number = design_set_tracking[j].design_number
          /\ design_set_tracking[i].allocated_sets > 0

(* ------------------------------- claim C19 ------------------------------ *)
\* the order has been soft-deleted
Deleted(order_id) == order_id \in DOMAIN orders /\ ~orders[order_id].is_active

\* the ledger rows and beam configuration rows of deleted orders are inactive
C19_DeletedOrderRowsInactive ==
    \A o \in OrderIds :
        Deleted(o) =>
            /\ \A i \in DOMAIN design_set_tracking :
                  design_set_tracking[i].order_id = o => ~design_set_tracking[i].is_active
            /\ \A i \in DOMAIN design_beam_config :
                  design_beam_config[i].order_id = o => ~design_beam_config[i].is_active

\* nothing is read from, and nothing allocated against, a deleted order
C19_DeletedOrderRefused ==
    /\ resp'.op = "getDesignTracking" =>
          \A o \in OrderIds, d \in AllocDesigns :
              (Deleted(o) /\ GetDesignTracking(o, d)) => resp'.designs = <<>>
    /\ resp'.op = "allocate" =>
          \A o \in OrderIds, d \in Designs, n \in 1..(MaxSets + 1) :
              (Deleted(o) /\ Allocate(o, d, n)) => resp'.status # "ok"
    /\ resp'.op = "createLot" =>
          \A as \in AllocLists :
              (/\ \E k \in DOMAIN as : Deleted(as[k].order_id)
               /\ CreateLotFromSets(as)) => resp'.status # "ok"

\* C19: after an order is soft-deleted all of its ledger rows and beam
\* configuration rows are inactive, so getDesignTracking returns nothing for
\* it and no later allocate or createLot against its designs can succeed.
C19_DeleteOrderCascades ==
    []C19_DeletedOrderRowsInactive /\ [][C19_DeletedOrderRefused]_vars

\* a lot has been created from the sets of a deleted order
C19_Witness ==
    /\ resp.op = "createLot" /\ resp.status = "ok"
    /\ \E i \in DOMAIN lot_design_allocations :
          Deleted(lot_design_allocations[i].order_id)

(* ------------------------------- claim C20 ------------------------------ *)
\* the design-wise report of the current state
CurrentReport ==
    DesignWiseAllocationDetail(orders, design_set_tracking, design_beam_config)

\* the beam_pieces entries of a report, each as <<design row, entry>>
Cells(report) ==
    UNION {{<<i, j>> : j \in DOMAIN report[i].beam_pieces} : i \in DOMAIN report}

CellsOf(report, quality, color) ==
    {c \in Cells(report) :
        /\ report[c[1]].quality_name = quality
        /\ report[c[1]].beam_pieces[c[2]].beam_color_id = color}

RECURSIVE SumCells(_, _)
SumCells(report, cells) ==
    IF cells = {} THEN 0
    ELSE LET c == CHOOSE x \in cells : TRUE
         IN report[c[1]].beam_pieces[c[2]].pieces + SumCells(report, cells \ {c})

TotalsOf(entries) == [k \in DOMAIN entries |-> entries[k].total_pieces]

C20_SummaryOfReport ==
    resp.op = "summary" =>
        LET report == CurrentReport
            qs == resp.designs.qualities
        IN /\ \A q \in Qualities :
                 LET es == {k \in DOMAIN qs : qs[k].quality_name = q}
                     rows == {i \in DOMAIN report : report[i].quality_name = q}
                 IN /\ Cardinality(es) = IF rows = {} THEN 0 ELSE 1
                    /\ \A k \in es :
                          /\ \A b \in Beams :
                                LET cs == {j \in DOMAIN qs[k].beam_colors :
                                              qs[k].beam_colors[j].beam_color_code = b}
                                    cells == CellsOf(report, q, b)
                                IN /\ Cardinality(cs) = IF cells = {} THEN 0 ELSE 1
                                   /\ \A j \in cs :
                                         /\ qs[k].beam_colors[j].total_pieces
                                                = SumCells(report, cells)
                                         /\ qs[k].beam_colors[j].designs_count
                                                = Cardinality({c[1] : c \in cells})
                          /\ qs[k].total_pieces = SumSeq(TotalsOf(qs[k].beam_colors))
           /\ resp.designs.grand_total_pieces = SumSeq(TotalsOf(qs))
           /\ resp.designs.grand_total_pieces = SumCells(report, Cells(report))

C20_SummaryReadOnly == resp'.op = "summary" => UNCHANGED tables

\* C20: the complete beam summary is a pure fold of the design-wise report:
\* for each quality and beam color code, total_pieces is the sum of that
\* color's pieces over the quality's design rows and designs_count the number
\* of contributing design rows; each quality's total_pieces is the sum of its
\* beam colors' totals; grand_total_pieces is the sum over the qualities and
\* equals the sum of all pieces in the design-wise report; producing the
\* summary changes no stored state.
C20_BeamSummaryFold == []C20_SummaryOfReport /\ [][C20_SummaryReadOnly]_vars

\* a summary of two qualities after an allocation, one of its colors fed by
\* two design rows with different pieces
C20_Witness ==
    /\ resp.op = "summary"
    /\ Len(resp.designs.qualities) = 2
    /\ resp.designs.grand_total_pieces > 0
    /\ \E i \in DOMAIN design_set_tracking : design_set_tracking[i].allocated_sets > 0
    /\ \E k \in DOMAIN resp.designs.qualities :
          \E j \in DOMAIN resp.designs.qualities[k].beam_colors :
              /\ resp.designs.qualities[k].beam_colors[j].designs_count = 2
              /\ resp.designs.qualities[k].beam_colors[j].total_pieces = 2 * MaxSets - 1

(* ------------------------------- claim C21 ------------------------------ *)
\* the distinct design numbers held in the active order items of an order
DesignsHeld(order_id) ==
    UNION {Range(order_items[i].design_number) :
              i \in {k \in DOMAIN order_items : /\ order_items[k].order_id = order_id
                                                /\ order_items[k].is_active}}

\* C21: in every reachable state, after createOrder and any sequence of
\* updateOrder calls, an order's total_designs equals the number of distinct
\* design numbers held in the order's active order items.
C21_TotalDesigns ==
    \A o \in DOMAIN orders :
        orders[o].is_active => orders[o].total_designs = Cardinality(DesignsHeld(o))

\* an order created with the one design number "1,2" holds two design numbers
C21_Witness ==
    /\ resp.op = "createOrder" /\ resp.status = "ok"
    /\ orders[1].total_designs = 1
    /\ DesignsHeld(1) = {1, 2}

(* ------------------------------- claim C22 ------------------------------ *)
\* the status of every lot is one of the four allowed values
C22_StatusAllowed ==
    \A l \in DOMAIN lot_register : lot_register[l].status \in Statuses

\* a new lot is PENDING; an update with another status value changes no lot;
\* an update with an allowed value sets it, whatever the status was
C22_StatusStep ==
    /\ Len(lot_register') > Len(lot_register)
          => lot_register'[Len(lot_register')].status = "PENDING"
    /\ resp'.op = "updateLot" =>
          \A l \in 1..MaxLots, st \in Statuses \cup {"CANCELLED"} :
              UpdateLot(l, st) =>
                  IF st \in Statuses
                  THEN l \in DOMAIN lot_register => lot_register'[l].status = st
                  ELSE resp'.status = "validation" /\ lot_register' = lot_register

\* C22: every lot is created with status PENDING and in every reachable state
\* each lot's status is one of PENDING, IN_PROGRESS, COMPLETED, DELIVERED: an
\* updateLot with any other status value is rejected without changing the
\* lot, while updateLot may move a lot from any of the four statuses to any
\* other (no transition order is enforced).
C22_LotStatus == []C22_StatusAllowed /\ [][C22_StatusStep]_vars

\* a lot holding sets of the ledger has been moved to DELIVERED
C22_Witness ==
    /\ resp.op = "updateLot" /\ resp.status = "ok"
    /\ lot_design_allocations # <<>>
    /\ \E l \in DOMAIN lot_register :
          lot_register[l].status = "DELIVERED" /\ lot_register[l].is_active

(* ------------------------------- claim C23 ------------------------------ *)
\* C23: updateLot on a lot_id that does not identify an active lot (no row, or
\* a soft-deleted lot) fails with a not-found error and leaves the
\* lot_register row unchanged.
C23_InactiveLotUntouched ==
    resp'.op = "updateLot" =>
        \A l \in 1..MaxLots, st \in Statuses :
            (/\ l \in DOMAIN lot_register => ~lot_register[l].is_active
             /\ UpdateLot(l, st))
            => resp'.status = "not_found" /\ lot_register' = lot_register

C23_UpdateLotNotFound == [][C23_InactiveLotUntouched]_vars

\* an update of a deleted lot was answered not found and has changed its status
C23_Witness ==
    /\ resp.op = "updateLot" /\ resp.status = "not_found"
    /\ \E l \in DOMAIN lot_register :
          ~lot_register[l].is_active /\ lot_register[l].status = "DELIVERED"

(* ------------------------------- claim C24 ------------------------------ *)
\* C24: when two set-based createLot requests that target the same (order,
\* design) are interleaved, a request that ends in an insufficient-sets error
\* has persisted no lot_register row and no lot_design_allocations row and has
\* changed no ledger row.
C24_RefusedLeavesNothing ==
    \A p \in DOMAIN procs :
        (procs[p].pc = "done" /\ procs[p].status = "insufficient")
        => /\ procs[p].lot_id = 0
           /\ procs[p].allocated = 0
           /\ \A i \in DOMAIN lot_design_allocations :
                 lot_design_allocations[i].lot_id # procs[p].lot_id

\* a request was refused for insufficient sets after it had inserted its lot
\* and taken the sets of its first entry
C24_Witness ==
    \E p \in DOMAIN procs :
        /\ procs[p].pc = "done" /\ procs[p].status = "insufficient"
        /\ procs[p].lot_id \in DOMAIN lot_register
        /\ procs[p].allocated > 0

(* ------------------------------- claim C25 ------------------------------ *)
\* the allocated_sets of the rows of lot_design_allocations, one per row
RECURSIVE RecordedSets(_)
RecordedSets(rows) ==
    IF rows = <<>> THEN <<>>
    ELSE <<Head(rows).allocated_sets>> \o RecordedSets(Tail(rows))

\* the sets the lot_design_allocations rows record for the pair, rows of
\* deleted lots included
SetsRecorded(order_id, design_number) ==
    LET OfPair(r) == r.order_id = order_id /\ r.design_number = design_number
    IN SumSeq(RecordedSets(SelectSeq(lot_design_allocations, OfPair)))

\* C25: in every reachable state, for each (order, design) the ledger's
\* allocated_sets equals the sum of allocated_sets over all
\* lot_design_allocations rows recorded for that pair, rows of deleted lots
\* included.
C25_LedgerMatchesRows ==
    \A i \in DOMAIN design_set_tracking :
        design_set_tracking[i].allocated_sets =
            SetsRecorded(design_set_tracking[i].order_id,
                         design_set_tracking[i].design_number)

\* a lot creation was refused for insufficient sets and rows of
\* lot_design_allocations record more sets than the ledger row has allocated
C25_Witness ==
    /\ resp.op = "createLot" /\ resp.status = "insufficient"
    /\ \E i \in DOMAIN design_set_tracking :
           design_set_tracking[i].allocated_sets <
               SetsRecorded(design_set_tracking[i].order_id,
                            design_set_tracking[i].design_number)

(* ------------------------------- claim C26 ------------------------------ *)
\* C26: for any integer sets_to_allocate passed to the ledger's allocate,
\* zero and negative values included, the row's remaining_sets stays within
\* [0, total_sets] and its allocated_sets stays within [0, total_sets].
C26_CountsInRange ==
    \A i \in DOMAIN design_set_tracking :
        /\ design_set_tracking[i].remaining_sets \in 0..design_set_tracking[i].total_sets
        /\ design_set_tracking[i].allocated_sets \in 0..design_set_tracking[i].total_sets

\* an allocate succeeded and left a row with a negative allocated_sets and
\* more remaining sets than the row's total
C26_Witness ==
    /\ resp.op = "allocate" /\ resp.status = "ok"
    /\ \E i \in DOMAIN design_set_tracking :
           /\ design_set_tracking[i].allocated_sets < 0
           /\ design_set_tracking[i].remaining_sets > design_set_tracking[i].total_sets

\* remaining_sets is never negative, whatever integer allocate is given
C26_RemainingNotNegative ==
    \A i \in DOMAIN design_set_tracking : design_set_tracking[i].remaining_sets >= 0

(* ------------------------------- claim C27 ------------------------------ *)
\* validate_design_allocation and an allocate executed next on the same state
\* agree on (order_id, design_number, n): valid exactly when allocate
\* succeeds, and available_after_allocation is the remaining_sets allocate leaves
Agrees(order_id, design_number, n) ==
    LET v == ValidateDesignAllocation(design_set_tracking, order_id, design_number, n)
        r == AllocateSets(design_set_tracking, order_id, design_number, n)
    IN /\ v.valid <=> r.status = "ok"
       /\ v.valid =>
             v.available_after_allocation =
                 GetDesignSetTracking(r.tracking, order_id, design_number)[1].remaining_sets

C27_ValidateAgrees ==
    \A o \in OrderIds, d \in AllocDesigns, n \in 1..(MaxSets + 1) : Agrees(o, d, n)

\* a validate request writes nothing
C27_ValidateReadOnly ==
    [][resp'.op = "validate" => UNCHANGED <<tables, granted>>]_vars

\* C27: validate_design_allocation(order, design, n) is read-only and agrees
\* with allocate: for n > 0 it returns valid exactly when an allocate(order,
\* design, n) executed next with no intervening write succeeds, and its
\* available_after_allocation equals the remaining_sets that allocate leaves.
C27_ValidateAsAllocate == []C27_ValidateAgrees /\ C27_ValidateReadOnly

\* a validate request was answered while the ledger holds a row for which
\* validation of the empty design number says valid and allocate does not
\* succeed
C27_Witness ==
    /\ resp.op = "validate"
    /\ \E o \in OrderIds, n \in 1..MaxSets :
           /\ ValidateDesignAllocation(design_set_tracking, o, EmptyDesign, n).valid
           /\ AllocateSets(design_set_tracking, o, EmptyDesign, n).status # "ok"

\* for the design numbers of orders validation and allocate agree
C27_NamedDesignsAgree ==
    \A o \in OrderIds, d \in Designs, n \in 1..(MaxSets + 1) : Agrees(o, d, n)

(* ------------------------------- claim C28 ------------------------------ *)
\* C28: in every reachable state each active Design Set Tracking row's
\* total_sets equals the sets value of its owning order, including after
\* updateOrder changes the order's sets.
C28_TotalSetsOfOrder ==
    \A i \in DOMAIN design_set_tracking :
        design_set_tracking[i].is_active =>
            /\ design_set_tracking[i].order_id \in DOMAIN orders
            /\ design_set_tracking[i].total_sets =
                   orders[design_set_tracking[i].order_id].sets

\* an order update went through and an active ledger row holds a total_sets
\* that is not the sets of its order
C28_Witness ==
    /\ resp.op = "updateOrder" /\ resp.status = "ok"
    /\ \E i \in DOMAIN design_set_tracking :
           /\ design_set_tracking[i].is_active
           /\ design_set_tracking[i].total_sets #
                  orders[design_set_tracking[i].order_id].sets

(* ------------------------------- claim C29 ------------------------------ *)
\* the allocated_pieces of lot_allocations rows, one per row
RECURSIVE RecordedPieces(_)
RecordedPieces(rows) ==
    IF rows = <<>> THEN <<>>
    ELSE <<Head(rows).allocated_pieces>> \o RecordedPieces(Tail(rows))

\* the pieces the active lot_allocations rows record for the item of a status row
PiecesRecorded(item) ==
    LET OfItem(r) == /\ r.is_active
                     /\ r.order_id = item.order_id
                     /\ r.design_number = item.design_number
                     /\ r.ground_color_name = item.ground_color_name
    IN SumSeq(RecordedPieces(SelectSeq(lot_allocations, OfItem)))

C29_PiecesWithinTotal ==
    \A i \in DOMAIN order_item_status :
        order_item_status[i].is_active =>
            PiecesRecorded(order_item_status[i]) <= order_item_status[i].total_pieces

\* a piece-level createLot refused for an invalid entry writes nothing
C29_RefusedWritesNothing ==
    [][(resp'.op = "createLotPieces" /\ resp'.status = "invalid")
           => UNCHANGED <<tables, granted>>]_vars

\* C29: for the piece-level createLot path, over any sequence of successful
\* createLot calls the total allocated_pieces recorded in active
\* lot_allocations rows for one (order, design, ground color) never exceeds
\* that item's total_pieces in order_item_status, and a single request whose
\* entry exceeds the item's remaining_pieces is rejected with no Lot or
\* allocation row written.
C29_NoPieceOverAllocation == []C29_PiecesWithinTotal /\ C29_RefusedWritesNothing

\* a second piece-level lot was created and the rows of an item record more
\* pieces than the item's total_pieces
C29_Witness ==
    /\ resp.op = "createLotPieces" /\ resp.status = "ok"
    /\ Len(lot_register) > 1
    /\ \E i \in DOMAIN order_item_status :
           /\ order_item_status[i].is_active
           /\ PiecesRecorded(order_item_status[i]) > order_item_status[i].total_pieces

(* ------------------------------- claim C30 ------------------------------ *)
\* the remaining_pieces of the status rows of a design, summed
RemainingPieces(status, order_id, design_number) ==
    SumSeq(RemainingOf(status, DesignStatusIds(status, order_id, design_number)))

\* the allocated_pieces of the lot_allocations rows of a lot, summed
LotPieces(rows, lot_id) ==
    LET OfLot(r) == r.lot_id = lot_id
    IN SumSeq(RecordedPieces(SelectSeq(rows, OfLot)))

\* a successful piece-count allocation: the decrease of remaining_pieces over
\* the design's status rows is the total_pieces of the lot created and the sum
\* of the lot's rows
C30_DecreaseIsLot ==
    [][(resp'.op = "repositoryCreateLotFromDesign" /\ resp'.status = "ok")
          => \E d \in Designs :
                LET lot_id == Len(lot_register') IN
                /\ lot_id = Len(lot_register) + 1
                /\ \A i \in DOMAIN lot_allocations' :
                      lot_allocations'[i].lot_id = lot_id
                          => lot_allocations'[i].design_number = d
                /\ RemainingPieces(order_item_status, 1, d)
                       - RemainingPieces(order_item_status', 1, d)
                   = lot_register'[lot_id].total_pieces
                /\ lot_register'[lot_id].total_pieces = LotPieces(lot_allocations', lot_id)
                /\ \A e \in Designs \ {d} :
                      RemainingPieces(order_item_status', 1, e)
                          = RemainingPieces(order_item_status, 1, e)]_vars

\* every status row is balanced and has no negative remaining_pieces
C30_StatusBalanced ==
    \A i \in DOMAIN order_item_status :
        /\ order_item_status[i].allocated_pieces + order_item_status[i].remaining_pieces
               = order_item_status[i].total_pieces
        /\ order_item_status[i].remaining_pieces >= 0

\* C30: after a successful piece-count allocation (create_lot_from_design) of
\* P pieces for a design, the total decrease of remaining_pieces over that
\* design's order_item_status rows equals the created lot's total_pieces and
\* the sum of its lot_allocations rows, and every status row keeps
\* allocated_pieces + remaining_pieces = total_pieces with remaining_pieces >= 0,
\* also when several status rows of the design share one beam color.
C30_PieceCountAllocation == []C30_StatusBalanced /\ C30_DecreaseIsLot

\* a piece-count allocation went through for a design with two status rows of
\* one beam color and its lot holds more pieces than the rows have allocated
C30_Witness ==
    /\ resp.op = "repositoryCreateLotFromDesign" /\ resp.status = "ok"
    /\ \E i, j \in DOMAIN order_item_status :
           /\ i # j
           /\ order_item_status[i].design_number = order_item_status[j].design_number
           /\ order_item_status[i].beam_color_id = order_item_status[j].beam_color_id
    /\ \E l \in DOMAIN lot_register :
           lot_register[l].total_pieces >
               SumSeq([k \in DOMAIN order_item_status |->
                          order_item_status[k].allocated_pieces])

====
